---- MODULE Spec2Model ----
(***************************************************************************)
(* Space Invaders: the simulation core (model.c) and its driver (main.c).  *)
(*                                                                         *)
(* Numbers.  The C code uses float positions and timers and a fixed step   *)
(* dt = 1/TARGET_FPS s.  Every speed of the game is an even number of      *)
(* logical units per second, so every position the code computes is a      *)
(* multiple of 2/TARGET_FPS = 1/30 of a logical unit, and every timer a    *)
(* multiple of dt.  The model therefore stores                             *)
(*   - positions (x, y) in units of 1/PosUnit of a logical unit,           *)
(*   - timers and dt in ticks of 1/TARGET_FPS second,                      *)
(*   - speeds (dx, dy) and sizes (width, height) in the code's own units,  *)
(* which makes the code's arithmetic exact integer arithmetic.             *)
(*                                                                         *)
(* Strings (file names, the text-input buffer) are sequences of            *)
(* one-character strings.                                                  *)
(***************************************************************************)
EXTENDS Integers, Sequences, FiniteSets, TLC

VARIABLES
    model,      \* the GameModel allocated by model_init (the world snapshot)
    files,      \* the directory "sauvegardes": file name -> file content
    running,    \* FALSE once the process has called exit(0)
    view,       \* the front end chosen at startup: "ncurses" or "sdl"
    steps,      \* number of model_update calls that advanced a clock
    events,     \* number of environment events (commands, random events) so far
    lastCall,   \* what the last operation called and what the call met
    savedSnap,  \* file name -> the snapshot given to the save that wrote it
    accumulator, \* main: the simulated time owed, in units of one ulp of dt
    frame       \* main: the section of the loop body that comes next, and
                \* the model_update calls of the current frame

vars == <<model, files, running, view, steps, events, lastCall, savedSnap,
          accumulator, frame>>

----------------------------------------------------------------------------
(* common.h, model.h: constants *)

GAME_WIDTH == 100
GAME_HEIGHT == 50
MAX_ENEMIES == 60
MAX_BULLETS == 100
TARGET_FPS == 60

PLAYER_SPEED == 40
BULLET_SPEED == 60
ENEMY_SPEED_BASE == 10
ENEMY_DROP_HEIGHT == 2
PLAYER_WIDTH == 5
PLAYER_HEIGHT == 3
ENEMY_WIDTH == 4
ENEMY_HEIGHT == 3
BULLET_WIDTH == 1
BULLET_HEIGHT == 1
MAX_SAVE_FILES == 10
MAX_FILENAME_LEN == 32
MAX_SHIELDS == 4
SHIELD_MAX_HEALTH == 10
MAX_LIVES_NORMAL == 3
UFO_SPEED == 10
UFO_WIDTH == 4
UFO_HEIGHT == 2

\* rows and columns of the formation built by init_enemies
FORMATION_ROWS == 5
FORMATION_COLS == 11

\* the fixed step the driver passes to model_update, in ticks
DT == 1

\* EntityType
ENTITY_PLAYER == "ENTITY_PLAYER"
ENTITY_BULLET_PLAYER == "ENTITY_BULLET_PLAYER"
ENTITY_BULLET_ENEMY == "ENTITY_BULLET_ENEMY"
ENTITY_ENEMY_TYPE_1 == "ENTITY_ENEMY_TYPE_1"
ENTITY_ENEMY_TYPE_2 == "ENTITY_ENEMY_TYPE_2"
ENTITY_ENEMY_TYPE_3 == "ENTITY_ENEMY_TYPE_3"
ENTITY_UFO == "ENTITY_UFO"

\* GameStateEnum
STATE_MENU == "STATE_MENU"
STATE_PLAYING == "STATE_PLAYING"
STATE_PAUSED == "STATE_PAUSED"
STATE_TUTORIAL == "STATE_TUTORIAL"
STATE_GAME_OVER == "STATE_GAME_OVER"
STATE_VICTORY == "STATE_VICTORY"
STATE_CONFIRM_QUIT == "STATE_CONFIRM_QUIT"
STATE_SAVE_INPUT == "STATE_SAVE_INPUT"
STATE_LOAD_MENU == "STATE_LOAD_MENU"
STATE_OVERWRITE_CONFIRM == "STATE_OVERWRITE_CONFIRM"
STATE_SAVE_SELECT == "STATE_SAVE_SELECT"
STATE_SAVE_SUCCESS == "STATE_SAVE_SUCCESS"

\* GameCommand
CMD_NONE == "CMD_NONE"
CMD_PAUSE == "CMD_PAUSE"
CMD_EXIT == "CMD_EXIT"
CMD_MOVE_LEFT == "CMD_MOVE_LEFT"
CMD_MOVE_RIGHT == "CMD_MOVE_RIGHT"
CMD_SHOOT == "CMD_SHOOT"
CMD_UP == "CMD_UP"
CMD_DOWN == "CMD_DOWN"
CMD_LEFT == "CMD_LEFT"
CMD_RIGHT == "CMD_RIGHT"
CMD_RETURN == "CMD_RETURN"
CMD_BACKSPACE == "CMD_BACKSPACE"

GameCommand ==
    {CMD_NONE, CMD_PAUSE, CMD_EXIT, CMD_MOVE_LEFT, CMD_MOVE_RIGHT, CMD_SHOOT,
     CMD_UP, CMD_DOWN, CMD_LEFT, CMD_RIGHT, CMD_RETURN, CMD_BACKSPACE}

----------------------------------------------------------------------------
(* units *)

\* stored position units per logical unit
PosUnit == TARGET_FPS \div 2

\* a logical coordinate as a stored position
P(n) == n * PosUnit

\* the float literal num/den seconds, in ticks
Ticks(num, den) == (num * TARGET_FPS) \div den

\* v * dt of the code: the displacement (stored units) at speed v over dt ticks
Move(v, dt) == (v * dt * PosUnit) \div TARGET_FPS

Min(S) == CHOOSE x \in S : \A y \in S : x <= y

----------------------------------------------------------------------------
(* model.h: data records, as calloc leaves them *)

ZeroEntity ==
    [x |-> 0, y |-> 0, width |-> 0, height |-> 0, dx |-> 0, dy |-> 0,
     active |-> FALSE, type |-> ENTITY_PLAYER, shoot_timer |-> 0,
     anim_timer |-> 0, anim_frame |-> 0, exploding |-> FALSE,
     explode_timer |-> 0]

ZeroUfo ==
    [x |-> 0, y |-> 0, width |-> 0, height |-> 0, dx |-> 0, active |-> FALSE,
     hasSpawnedThisLevel |-> FALSE, exploding |-> FALSE, explode_timer |-> 0,
     type |-> ENTITY_PLAYER]

ZeroShield ==
    [x |-> 0, y |-> 0, width |-> 0, height |-> 0, health |-> 0, active |-> FALSE]

ZeroSoundState ==
    [play_shoot |-> FALSE, play_invader_killed |-> FALSE,
     play_player_explosion |-> FALSE, play_select_sound |-> FALSE,
     play_game_over |-> FALSE, play_level_up |-> FALSE, play_beat |-> FALSE,
     beat_index |-> 0, ufo_loopING |-> FALSE]

ZeroGameModel ==
    [state |-> STATE_MENU, previous_state |-> STATE_MENU,
     player |-> ZeroEntity,
     enemies |-> [i \in 0 .. MAX_ENEMIES - 1 |-> ZeroEntity],
     bullets |-> [i \in 0 .. MAX_BULLETS - 1 |-> ZeroEntity],
     ufo |-> ZeroUfo,
     shields |-> [i \in 0 .. MAX_SHIELDS - 1 |-> ZeroShield],
     score |-> 0, lives |-> 0, level |-> 0, normal_max_lives |-> 0,
     enemy_speed_mult |-> 0, direction_enemies |-> 0, drop_direction |-> 0,
     drop_step_count |-> 0,
     animation_frame |-> 0, animation_timer |-> 0,
     game_over_timer |-> 0, hit_timer |-> 0, save_success_timer |-> 0,
     menu_selection |-> 0, input_buffer |-> <<>>,
     save_files |-> [i \in 0 .. MAX_SAVE_FILES - 1 |-> <<>>],
     save_file_count |-> 0, current_filename |-> <<>>, pending_quit |-> FALSE,
     sounds |-> ZeroSoundState, volume |-> 0, is_muted |-> FALSE]

----------------------------------------------------------------------------
(* model.c: helpers *)

\* AABB overlap of two entities; both must be active
check_collision(a, b) ==
    IF ~a.active \/ ~b.active
    THEN FALSE
    ELSE /\ a.x < b.x + P(b.width)
         /\ a.x + P(a.width) > b.x
         /\ a.y < b.y + P(b.height)
         /\ a.y + P(a.height) > b.y

\* first-fit allocation in the bullet pool; nothing happens when it is full
spawn_bullet(m, x, y, dy, type) ==
    LET free == {i \in 0 .. MAX_BULLETS - 1 : ~m.bullets[i].active} IN
    IF free = {}
    THEN m
    ELSE [m EXCEPT !.bullets[Min(free)] =
            [@ EXCEPT !.active = TRUE, !.x = x, !.y = y, !.dx = 0, !.dy = dy,
                      !.width = BULLET_WIDTH, !.height = BULLET_HEIGHT,
                      !.type = type, !.anim_timer = 0, !.anim_frame = 0]]

\* the enemy that init_enemies puts at (row, col)
FormationEnemy(row, col) ==
    [ZeroEntity EXCEPT
        !.active = TRUE, !.width = ENEMY_WIDTH, !.height = ENEMY_HEIGHT,
        !.x = P(5 + col * (ENEMY_WIDTH + 2)),
        !.y = P(7 + row * (ENEMY_HEIGHT + 2)),
        !.type = IF row = 0 THEN ENTITY_ENEMY_TYPE_3
                 ELSE IF row < 3 THEN ENTITY_ENEMY_TYPE_2
                 ELSE ENTITY_ENEMY_TYPE_1]

\* a variant of init_enemies that leaves the drop oscillator as it is
init_enemies_keeping_drop(m) ==
    [m EXCEPT
        !.enemies = [i \in 0 .. MAX_ENEMIES - 1 |->
                        IF i < FORMATION_ROWS * FORMATION_COLS
                        THEN FormationEnemy(i \div FORMATION_COLS, i % FORMATION_COLS)
                        ELSE m.enemies[i]],
        !.enemy_speed_mult = 1,
        !.direction_enemies = 1,
        !.ufo = [@ EXCEPT !.active = FALSE, !.hasSpawnedThisLevel = FALSE,
                          !.y = P(4)]]

init_enemies(m) ==
    [m EXCEPT
        !.enemies = [i \in 0 .. MAX_ENEMIES - 1 |->
                        IF i < FORMATION_ROWS * FORMATION_COLS
                        THEN FormationEnemy(i \div FORMATION_COLS, i % FORMATION_COLS)
                        ELSE m.enemies[i]],
        !.enemy_speed_mult = 1,
        !.direction_enemies = 1,
        !.drop_direction = 1,
        !.drop_step_count = 0,
        !.ufo = [@ EXCEPT !.active = FALSE, !.hasSpawnedThisLevel = FALSE,
                          !.y = P(4)]]

\* a variant of spawn_ufo that forgets to set the per-level flag
spawn_ufo_keeping_flag(m, side) ==
    [m EXCEPT !.ufo =
        [@ EXCEPT !.exploding = FALSE, !.explode_timer = 0, !.active = TRUE,
                  !.type = ENTITY_UFO,
                  !.width = UFO_WIDTH, !.height = UFO_HEIGHT, !.y = P(4),
                  !.x = IF side = 0 THEN P(-UFO_WIDTH) ELSE P(GAME_WIDTH),
                  !.dx = IF side = 0 THEN UFO_SPEED ELSE -UFO_SPEED]]

\* side is the value of rand() % 2
spawn_ufo(m, side) ==
    [m EXCEPT !.ufo =
        [@ EXCEPT !.exploding = FALSE, !.explode_timer = 0, !.active = TRUE,
                  !.hasSpawnedThisLevel = TRUE, !.type = ENTITY_UFO,
                  !.width = UFO_WIDTH, !.height = UFO_HEIGHT, !.y = P(4),
                  !.x = IF side = 0 THEN P(-UFO_WIDTH) ELSE P(GAME_WIDTH),
                  !.dx = IF side = 0 THEN UFO_SPEED ELSE -UFO_SPEED]]

init_shields(m) ==
    [m EXCEPT !.shields = [i \in 0 .. MAX_SHIELDS - 1 |->
        [active |-> TRUE, health |-> SHIELD_MAX_HEALTH, width |-> 8, height |-> 6,
         x |-> (P(GAME_WIDTH) \div (MAX_SHIELDS + 1)) * (i + 1) - P(8) \div 2,
         y |-> P(GAME_HEIGHT - PLAYER_HEIGHT - 9)]]]

\* the snapshot model_init returns
model_init ==
    init_shields(init_enemies(
        [ZeroGameModel EXCEPT
            !.state = STATE_MENU, !.lives = 3,
            !.normal_max_lives = MAX_LIVES_NORMAL, !.level = 1, !.volume = 30,
            !.player = [@ EXCEPT !.active = TRUE, !.type = ENTITY_PLAYER,
                                 !.width = PLAYER_WIDTH, !.height = PLAYER_HEIGHT,
                                 !.x = P(GAME_WIDTH - PLAYER_WIDTH) \div 2,
                                 !.y = P(GAME_HEIGHT - PLAYER_HEIGHT - 1)]]))

\* a variant of reset_game that leaves the bullet pool as it is
reset_game_keeping_bullets(m) ==
    [init_shields(init_enemies(
        [m EXCEPT
            !.score = 0, !.lives = 3, !.level = 1, !.hit_timer = 0,
            !.enemy_speed_mult = 1, !.direction_enemies = 1,
            !.drop_direction = 1, !.drop_step_count = 0,
            !.ufo = [@ EXCEPT !.active = FALSE, !.hasSpawnedThisLevel = FALSE],
            !.player = [@ EXCEPT !.x = P(GAME_WIDTH - PLAYER_WIDTH) \div 2,
                                 !.dx = 0]]))
     EXCEPT !.state = STATE_PLAYING]

reset_game(m) ==
    [init_shields(init_enemies(
        [m EXCEPT
            !.score = 0, !.lives = 3, !.level = 1, !.hit_timer = 0,
            !.enemy_speed_mult = 1, !.direction_enemies = 1,
            !.drop_direction = 1, !.drop_step_count = 0,
            !.bullets = [i \in 0 .. MAX_BULLETS - 1 |-> ZeroEntity],
            !.ufo = [@ EXCEPT !.active = FALSE, !.hasSpawnedThisLevel = FALSE],
            !.player = [@ EXCEPT !.x = P(GAME_WIDTH - PLAYER_WIDTH) \div 2,
                                 !.dx = 0]]))
     EXCEPT !.state = STATE_PLAYING]

----------------------------------------------------------------------------
(* model.c: model_update *)

\* The values rand() returns during one model_update call: rand() % 500
\* (flyer spawn roll), rand() % 2 (spawn side), rand() % 100 (enemy fire
\* roll) and the ten rand() % MAX_ENEMIES candidate shooters.  The generator
\* is libc's: its state is no field of GameModel.
RandDraw(spawn, side, fire, picks) ==
    [spawn |-> spawn, side |-> side, fire |-> fire, picks |-> picks]

\* a variant of UpdateTimers in which the shoot cooldown runs twice as fast
UpdateTimersFastCooldown(m, dt) ==
    [m EXCEPT
        !.player.shoot_timer = IF @ > 0 THEN @ - 2 * dt ELSE @,
        !.hit_timer = IF @ > 0 THEN @ - dt ELSE @]

\* B. shoot cooldown and hit-invulnerability timers
UpdateTimers(m, dt) ==
    [m EXCEPT
        !.player.shoot_timer = IF @ > 0 THEN @ - dt ELSE @,
        !.hit_timer = IF @ > 0 THEN @ - dt ELSE @]

\* beat = 0.5f - level * 0.05f, floored at 0.05f
Beat(level) ==
    IF Ticks(1, 2) - level * Ticks(5, 100) < Ticks(5, 100)
    THEN Ticks(5, 100)
    ELSE Ticks(1, 2) - level * Ticks(5, 100)

UpdateBeat(m, dt) ==
    IF m.animation_timer + dt >= Beat(m.level)
    THEN [m EXCEPT
            !.animation_frame = IF @ = 0 THEN 1 ELSE 0,
            !.animation_timer = 0,
            !.sounds.play_beat = TRUE,
            !.sounds.beat_index = (@ + 1) % 4]
    ELSE [m EXCEPT !.animation_timer = @ + dt]

\* a variant of ClampPlayerX that clamps on the left only
ClampPlayerXLeftOnly(x) == IF x < 0 THEN 0 ELSE x

\* C. player: integrate and clamp
ClampPlayerX(x) ==
    LET lo == IF x < 0 THEN 0 ELSE x IN
    IF lo > P(GAME_WIDTH - PLAYER_WIDTH) THEN P(GAME_WIDTH - PLAYER_WIDTH) ELSE lo

UpdatePlayer(m, dt) ==
    IF m.player.active
    THEN [m EXCEPT !.player.x = ClampPlayerX(@ + Move(m.player.dx, dt))]
    ELSE m

\* a variant of UfoLeaves that tests the left side only
UfoLeavesOnTheLeft(u) == u.dx < 0 /\ u.x < P(-UFO_WIDTH)

\* D. the flyer
UfoLeaves(u) ==
    \/ u.dx > 0 /\ u.x > P(GAME_WIDTH)
    \/ u.dx < 0 /\ u.x < P(-UFO_WIDTH)

UpdateUfo(m, dt, r) ==
    IF m.ufo.active
    THEN LET m1 == [m EXCEPT !.sounds.ufo_loopING = ~m.ufo.exploding] IN
         IF m.ufo.exploding
         THEN [m1 EXCEPT
                 !.ufo.explode_timer = @ - dt,
                 !.ufo.active = ~(m.ufo.explode_timer - dt <= 0)]
         ELSE LET u == [m.ufo EXCEPT !.x = @ + Move(m.ufo.dx, dt)] IN
              [m1 EXCEPT !.ufo = [u EXCEPT !.active = ~UfoLeaves(u)]]
    ELSE LET m1 == [m EXCEPT !.sounds.ufo_loopING = FALSE]
             enemies_alive == \E i \in 0 .. MAX_ENEMIES - 1 : m.enemies[i].active
         IN  IF ~m.ufo.hasSpawnedThisLevel /\ enemies_alive /\ r.spawn = 0
             THEN spawn_ufo(m1, r.side)
             ELSE m1

\* E. first enemy loop: explosion timers
ExplodeEnemies(m, dt) ==
    [m EXCEPT !.enemies = [i \in 0 .. MAX_ENEMIES - 1 |->
        LET e == m.enemies[i] IN
        IF e.active /\ e.exploding
        THEN [e EXCEPT !.explode_timer = @ - dt,
                       !.active = ~(e.explode_timer - dt <= 0)]
        ELSE e]]

Live(e) == e.active /\ ~e.exploding

\* active_enemies of that loop
ActiveEnemies(m) ==
    Cardinality({i \in 0 .. MAX_ENEMIES - 1 : Live(m.enemies[i])})

\* touch_edge of that loop
TouchEdge(m) ==
    \E i \in 0 .. MAX_ENEMIES - 1 :
        /\ Live(m.enemies[i])
        /\ \/ m.enemies[i].x <= 0 /\ m.direction_enemies = -1
           \/ m.enemies[i].x >= P(GAME_WIDTH - ENEMY_WIDTH) /\ m.direction_enemies = 1

\* a variant of LevelUp that rebuilds the barriers with the formation
LevelUpRebuildingShields(m) ==
    init_shields(init_enemies([m EXCEPT !.level = @ + 1, !.sounds.play_level_up = TRUE]))

\* the level transition of model_update
LevelUp(m) ==
    init_enemies([m EXCEPT !.level = @ + 1, !.sounds.play_level_up = TRUE])

\* the formation's move: a bounce at a boundary, a lateral step otherwise
MoveEnemies(m, dt) ==
    IF TouchEdge(m)
    THEN LET dir == m.direction_enemies * (-1)
             dy == IF m.drop_direction = 1 THEN ENEMY_DROP_HEIGHT
                   ELSE -ENEMY_DROP_HEIGHT
             cnt == IF m.drop_direction = 1 THEN m.drop_step_count + 1
                    ELSE m.drop_step_count - 1
             ddir == IF m.drop_direction = 1
                     THEN (IF cnt >= 3 THEN -1 ELSE m.drop_direction)
                     ELSE (IF cnt <= 0 THEN 1 ELSE m.drop_direction)
         IN  [m EXCEPT
                !.direction_enemies = dir,
                !.drop_step_count = cnt,
                !.drop_direction = ddir,
                !.enemies = [i \in 0 .. MAX_ENEMIES - 1 |->
                    IF Live(m.enemies[i])
                    THEN [m.enemies[i] EXCEPT !.y = @ + P(dy), !.x = @ + P(dir * 2)]
                    ELSE m.enemies[i]]]
    ELSE LET spd == ENEMY_SPEED_BASE * m.enemy_speed_mult * m.direction_enemies IN
         [m EXCEPT !.enemies = [i \in 0 .. MAX_ENEMIES - 1 |->
            IF Live(m.enemies[i])
            THEN [m.enemies[i] EXCEPT !.x = @ + Move(spd, dt)]
            ELSE m.enemies[i]]]

\* enemy fire: the first live enemy among the ten candidates shoots
EnemyFire(m, r) ==
    IF r.fire < m.level * 2
    THEN LET hits == {k \in 1 .. 10 : Live(m.enemies[r.picks[k]])} IN
         IF hits = {}
         THEN m
         ELSE LET e == m.enemies[r.picks[Min(hits)]] IN
              spawn_bullet(m, e.x + P(ENEMY_WIDTH) \div 2, e.y + P(ENEMY_HEIGHT),
                           (BULLET_SPEED * 6) \div 10, ENTITY_BULLET_ENEMY)
    ELSE m

\* the inline rectangle test of the bullet loop (shields and flyer)
Overlaps(b, t) ==
    /\ b.x < t.x + P(t.width)
    /\ b.x + P(b.width) > t.x
    /\ b.y < t.y + P(t.height)
    /\ b.y + P(b.height) > t.y

\* a variant of MovedBullet that animates the bullet without moving it
MovedBulletStill(b, dt) ==
    LET t == b.anim_timer + dt IN
    [b EXCEPT !.anim_timer = IF t > Ticks(1, 10) THEN 0 ELSE t,
              !.anim_frame = IF t > Ticks(1, 10) THEN (@ + 1) % 4 ELSE @]

\* the bullet after integration and animation
MovedBullet(b, dt) ==
    LET t == b.anim_timer + dt IN
    [b EXCEPT !.y = @ + Move(b.dy, dt),
              !.anim_timer = IF t > Ticks(1, 10) THEN 0 ELSE t,
              !.anim_frame = IF t > Ticks(1, 10) THEN (@ + 1) % 4 ELSE @]

\* a variant of OutOfBounds that tests the lower bound only
OutOfBoundsBelow(b) == b.y > P(GAME_HEIGHT)

OutOfBounds(b) == b.y < P(-10) \/ b.y > P(GAME_HEIGHT)

\* a variant of ShieldsHit that does not test whether the barrier is active
ShieldsHitAnyState(m, b) ==
    {s \in 0 .. MAX_SHIELDS - 1 : Overlaps(b, m.shields[s])}

\* the shields bullet b hits, the flyer hit and the enemies it hits
ShieldsHit(m, b) ==
    {s \in 0 .. MAX_SHIELDS - 1 : m.shields[s].active /\ Overlaps(b, m.shields[s])}

UfoHit(m, b) == m.ufo.active /\ ~m.ufo.exploding /\ Overlaps(b, m.ufo)

EnemiesHit(m, b) ==
    {e \in 0 .. MAX_ENEMIES - 1 : Live(m.enemies[e]) /\ check_collision(b, m.enemies[e])}

EnemyPoints(type) ==
    IF type = ENTITY_ENEMY_TYPE_1 THEN 10
    ELSE IF type = ENTITY_ENEMY_TYPE_2 THEN 20 ELSE 30

\* a variant of HitShield that never deactivates the barrier
HitShieldStayingActive(m, i, s) ==
    [m EXCEPT !.bullets[i].active = FALSE, !.shields[s].health = @ - 1]

HitShield(m, i, s) ==
    [m EXCEPT
        !.bullets[i].active = FALSE,
        !.shields[s].health = @ - 1,
        !.shields[s].active = IF m.shields[s].health - 1 <= 0 THEN FALSE ELSE @]

\* a variant of HitUfo that grants two lives
HitUfoTwoLives(m, i) ==
    [m EXCEPT
        !.bullets[i].active = FALSE,
        !.ufo.exploding = TRUE,
        !.ufo.explode_timer = Ticks(1, 2),
        !.score = @ + 100,
        !.lives = @ + 2,
        !.sounds.play_invader_killed = TRUE]

HitUfo(m, i) ==
    [m EXCEPT
        !.bullets[i].active = FALSE,
        !.ufo.exploding = TRUE,
        !.ufo.explode_timer = Ticks(1, 2),
        !.score = @ + 100,
        !.lives = @ + 1,
        !.sounds.play_invader_killed = TRUE]

HitEnemy(m, i, e) ==
    [m EXCEPT
        !.bullets[i].active = FALSE,
        !.enemies[e].exploding = TRUE,
        !.enemies[e].explode_timer = Ticks(1, 5),
        !.score = @ + EnemyPoints(m.enemies[e].type),
        !.sounds.play_invader_killed = TRUE]

\* a variant of HitPlayer that grants one second of invulnerability
HitPlayerBriefly(m, i) ==
    LET m1 == [m EXCEPT
                  !.bullets[i].active = FALSE,
                  !.lives = @ - 1,
                  !.hit_timer = Ticks(1, 1),
                  !.sounds.play_player_explosion = TRUE]
    IN  IF m1.lives <= 0
        THEN [m1 EXCEPT !.state = STATE_GAME_OVER, !.sounds.play_game_over = TRUE,
                        !.menu_selection = 0, !.game_over_timer = 0]
        ELSE m1

HitPlayer(m, i) ==
    LET m1 == [m EXCEPT
                  !.bullets[i].active = FALSE,
                  !.lives = @ - 1,
                  !.hit_timer = Ticks(2, 1),
                  !.sounds.play_player_explosion = TRUE]
    IN  IF m1.lives <= 0
        THEN [m1 EXCEPT !.state = STATE_GAME_OVER, !.sounds.play_game_over = TRUE,
                        !.menu_selection = 0, !.game_over_timer = 0]
        ELSE m1

\* a variant of BulletStep in which a barrier stops enemy bullets only
BulletStepOwnBarriers(m, i, dt) ==
    IF ~m.bullets[i].active
    THEN m
    ELSE LET b == MovedBullet(m.bullets[i], dt)
             m1 == [m EXCEPT !.bullets[i] = b]
         IN  IF OutOfBounds(b)
             THEN [m1 EXCEPT !.bullets[i].active = FALSE]
             ELSE IF b.type = ENTITY_BULLET_PLAYER
             THEN IF UfoHit(m1, b)
                  THEN HitUfo(m1, i)
                  ELSE IF EnemiesHit(m1, b) # {}
                  THEN HitEnemy(m1, i, Min(EnemiesHit(m1, b)))
                  ELSE m1
             ELSE IF ShieldsHit(m1, b) # {}
             THEN HitShield(m1, i, Min(ShieldsHit(m1, b)))
             ELSE IF m1.player.active /\ m1.hit_timer <= 0
                     /\ check_collision(b, m1.player)
                  THEN HitPlayer(m1, i)
                  ELSE m1

\* F. one iteration of the bullet loop
BulletStep(m, i, dt) ==
    IF ~m.bullets[i].active
    THEN m
    ELSE LET b == MovedBullet(m.bullets[i], dt)
             m1 == [m EXCEPT !.bullets[i] = b]
         IN  IF OutOfBounds(b)
             THEN [m1 EXCEPT !.bullets[i].active = FALSE]
             ELSE IF ShieldsHit(m1, b) # {}
             THEN HitShield(m1, i, Min(ShieldsHit(m1, b)))
             ELSE IF b.type = ENTITY_BULLET_PLAYER
             THEN IF UfoHit(m1, b)
                  THEN HitUfo(m1, i)
                  ELSE IF EnemiesHit(m1, b) # {}
                  THEN HitEnemy(m1, i, Min(EnemiesHit(m1, b)))
                  ELSE m1
             ELSE IF m1.player.active /\ m1.hit_timer <= 0
                     /\ check_collision(b, m1.player)
                  THEN HitPlayer(m1, i)
                  ELSE m1

\* The bullet loop.  Slots that are inactive when their turn comes are skipped
\* by the code, and no iteration activates a slot, so the loop is the
\* iteration, in index order, over the slots active when it starts.
RECURSIVE BulletLoop(_, _, _)
BulletLoop(m, todo, dt) ==
    IF todo = {}
    THEN m
    ELSE BulletLoop(BulletStep(m, Min(todo), dt), todo \ {Min(todo)}, dt)

ActiveBullets(m) == {i \in 0 .. MAX_BULLETS - 1 : m.bullets[i].active}

\* sections B to D and the first enemy loop: the state in which the level
\* transition is decided
BeforeLevelCheck(m, dt, r) ==
    ExplodeEnemies(UpdateUfo(UpdatePlayer(UpdateBeat(UpdateTimers(m, dt), dt), dt), dt, r), dt)

\* a variant of LevelCleared that forgets the flyer
LevelClearedIgnoringFlyer(m) == ActiveEnemies(m) = 0

LevelCleared(m) == ActiveEnemies(m) = 0 /\ ~m.ufo.active

\* a variant of UpdatePlaying that goes on with the step after a level
\* transition
UpdatePlayingThrough(m, dt, r) ==
    LET m1 == BeforeLevelCheck(m, dt, r)
        m2 == IF LevelCleared(m1) THEN LevelUp(m1) ELSE m1
        m3 == EnemyFire(MoveEnemies(m2, dt), r)
    IN  BulletLoop(m3, ActiveBullets(m3), dt)

\* the step in STATE_PLAYING
UpdatePlaying(m, dt, r) ==
    LET m1 == BeforeLevelCheck(m, dt, r) IN
    IF LevelCleared(m1)
    THEN LevelUp(m1)
    ELSE LET m2 == EnemyFire(MoveEnemies(m1, dt), r) IN
         BulletLoop(m2, ActiveBullets(m2), dt)

\* a variant of model_update that pauses for the banner only
model_update_unpaused(m, dt, r) ==
    IF m.state = STATE_SAVE_SUCCESS
    THEN [model |-> [m EXCEPT !.save_success_timer = @ - dt],
          exit |-> m.save_success_timer - dt <= 0]
    ELSE IF m.state = STATE_GAME_OVER
    THEN [model |-> [m EXCEPT !.game_over_timer = @ + dt], exit |-> FALSE]
    ELSE [model |-> UpdatePlaying(m, dt, r), exit |-> FALSE]

\* model_update(model, dt): the new snapshot, and whether exit(0) was called
model_update(m, dt, r) ==
    IF m.state = STATE_SAVE_SUCCESS
    THEN [model |-> [m EXCEPT !.save_success_timer = @ - dt],
          exit |-> m.save_success_timer - dt <= 0]
    ELSE IF m.state = STATE_GAME_OVER
    THEN [model |-> [m EXCEPT !.game_over_timer = @ + dt], exit |-> FALSE]
    ELSE IF m.state # STATE_PLAYING
    THEN [model |-> m, exit |-> FALSE]
    ELSE [model |-> UpdatePlaying(m, dt, r), exit |-> FALSE]

----------------------------------------------------------------------------
(* model.c: the save directory *)

\* the suffix ".dat"
DAT == <<".", "d", "a", "t">>

\* snprintf(buf, n, ...): at most n - 1 characters are kept
Truncate(str, n) == IF Len(str) > n - 1 THEN SubSeq(str, 1, n - 1) ELSE str

\* the file name that snprintf(path, 128, "sauvegardes/%s", filename) addresses
PathName(filename) == Truncate(filename, 128 - 12)

\* strstr(str, pat) != NULL
Contains(str, pat) ==
    \E i \in 1 .. Len(str) - Len(pat) + 1 : SubSeq(str, i, i + Len(pat) - 1) = pat

\* "%d" of a positive int
RECURSIVE Decimal(_)
Decimal(n) ==
    LET d == <<"0", "1", "2", "3", "4", "5", "6", "7", "8", "9">>[(n % 10) + 1] IN
    IF n < 10 THEN <<d>> ELSE Decimal(n \div 10) \o <<d>>

\* A file of the directory holds `records` complete GameModel images (what
\* fread(&temp, sizeof(GameModel), 1, f) returns) and, when it holds one,
\* that image.
FileContent(records, image) == [records |-> records, image |-> image]

NoImage == <<>>

\* What the environment decides during one call of model_handle_input:
\* whether fopen(path, "wb") succeeds, how many records fwrite then writes,
\* whether opendir succeeds and the order in which readdir reports entries.
IoEnv(can_open, written, dir_ok, listing) ==
    [can_open |-> can_open, written |-> written, dir_ok |-> dir_ok,
     listing |-> listing]

save_file_exists(fs, filename) == PathName(filename) \in DOMAIN fs

RECURSIVE ProbeUnique(_, _, _)
ProbeUnique(fs, base_name, i) ==
    LET candidate == Truncate(base_name \o <<"(">> \o Decimal(i) \o <<")">> \o DAT, 128) IN
    IF ~save_file_exists(fs, candidate)
    THEN candidate
    ELSE ProbeUnique(fs, base_name, i + 1)

\* a variant of generate_unique_filename that never probes
generate_first_filename(fs, base_name) ==
    Truncate(base_name \o <<"(">> \o Decimal(1) \o <<")">> \o DAT, 128)

generate_unique_filename(fs, base_name) == ProbeUnique(fs, base_name, 1)

RECURSIVE ScanLoop(_, _, _)
ScanLoop(m, listing, k) ==
    IF k > Len(listing)
    THEN m
    ELSE LET d_name == listing[k] IN
         IF d_name[1] = "."
         THEN ScanLoop(m, listing, k + 1)
         ELSE IF Contains(d_name, DAT) /\ m.save_file_count < MAX_SAVE_FILES
         THEN ScanLoop([m EXCEPT
                          !.save_files[m.save_file_count] = Truncate(d_name, 256),
                          !.save_file_count = @ + 1],
                       listing, k + 1)
         ELSE ScanLoop(m, listing, k + 1)

model_scan_saves(m, io) ==
    IF ~io.dir_ok
    THEN [m EXCEPT !.save_file_count = 0]
    ELSE ScanLoop([m EXCEPT !.save_file_count = 0], io.listing, 1)

\* model_save_named: the directory after the call
model_save_named(fs, m, filename, io) ==
    IF io.can_open
    THEN (PathName(filename) :>
            FileContent(io.written, IF io.written = 1 THEN m ELSE NoImage)) @@ fs
    ELSE fs

\* whether model_save_named wrote the whole snapshot
SaveSucceeds(io) == io.can_open /\ io.written = 1

\* model_load_named: its return value and the snapshot after the call
LoadSucceeds(fs, filename) ==
    PathName(filename) \in DOMAIN fs /\ fs[PathName(filename)].records = 1

\* a variant of model_load_named that keeps the saved invulnerability timer
model_load_named_keeping_timer(m, fs, filename) ==
    IF ~(PathName(filename) \in DOMAIN fs)
    THEN [ok |-> FALSE, model |-> m]
    ELSE LET temp == fs[PathName(filename)] IN
         IF temp.records = 1
         THEN [ok |-> TRUE,
               model |-> [temp.image EXCEPT !.state = STATE_PLAYING,
                                            !.sounds = ZeroSoundState]]
         ELSE [ok |-> FALSE, model |-> m]

\* a variant of model_load_named that adopts the buffer before testing the read
model_load_named_unchecked(m, fs, filename) ==
    IF ~(PathName(filename) \in DOMAIN fs)
    THEN [ok |-> FALSE, model |-> m]
    ELSE LET temp == fs[PathName(filename)] IN
         IF temp.records = 1
         THEN [ok |-> TRUE,
               model |-> [temp.image EXCEPT !.state = STATE_PLAYING,
                                            !.hit_timer = 0,
                                            !.sounds = ZeroSoundState]]
         ELSE [ok |-> FALSE, model |-> ZeroGameModel]

model_load_named(m, fs, filename) ==
    IF ~(PathName(filename) \in DOMAIN fs)
    THEN [ok |-> FALSE, model |-> m]
    ELSE LET temp == fs[PathName(filename)] IN
         IF temp.records = 1
         THEN [ok |-> TRUE,
               model |-> [temp.image EXCEPT !.state = STATE_PLAYING,
                                            !.hit_timer = 0,
                                            !.sounds = ZeroSoundState]]
         ELSE [ok |-> FALSE, model |-> m]

----------------------------------------------------------------------------
(* model.c: model_handle_input *)

\* The persistence call made by a command, if any: the function, the file
\* name it was given, whether fopen succeeded, whether the call succeeded and
\* the snapshot it was given.  For a simulation step: whether the flyer was
\* active when the step tested for the end of the level.
NoCall ==
    [fn |-> "none", filename |-> <<>>, opened |-> FALSE, ok |-> FALSE,
     snapshot |-> NoImage, flyer |-> FALSE]

SaveCall(filename, m, io) ==
    [fn |-> "model_save_named", filename |-> filename, opened |-> io.can_open,
     ok |-> SaveSucceeds(io), snapshot |-> m, flyer |-> FALSE]

LoadCall(filename, m, fs, ok) ==
    [fn |-> "model_load_named", filename |-> filename,
     opened |-> PathName(filename) \in DOMAIN fs, ok |-> ok, snapshot |-> m,
     flyer |-> FALSE]

\* the outcome of a handler: snapshot, directory, whether exit(0) was called
Outcome(m, fs, exit, call) ==
    [model |-> m, files |-> fs, exit |-> exit, call |-> call]

IsConfirm(cmd) == cmd = CMD_RETURN \/ cmd = CMD_SHOOT

\* the cursor after CMD_UP / CMD_DOWN in a menu whose last item is `last`
Navigate(sel, cmd, last) ==
    IF cmd = CMD_UP THEN (IF sel - 1 < 0 THEN last ELSE sel - 1)
    ELSE IF cmd = CMD_DOWN THEN (IF sel + 1 > last THEN 0 ELSE sel + 1)
    ELSE sel

VolumeDown(m) ==
    [m EXCEPT !.volume = IF @ - 10 < 0 THEN 0 ELSE @ - 10, !.is_muted = FALSE]

\* a variant of VolumeUp without the upper clamp
VolumeUpUnclamped(m) ==
    [m EXCEPT !.volume = @ + 10, !.is_muted = FALSE]

VolumeUp(m) ==
    [m EXCEPT !.volume = IF @ + 10 > 100 THEN 100 ELSE @ + 10, !.is_muted = FALSE]

ToggleMute(m) == [m EXCEPT !.is_muted = ~@]

Select(m) == [m EXCEPT !.sounds.play_select_sound = TRUE]

InputMenu(m, cmd, fs, io) ==
    IF cmd = CMD_EXIT
    THEN Outcome(m, fs, TRUE, NoCall)
    ELSE LET m1 == [m EXCEPT !.menu_selection = Navigate(@, cmd, 4)] IN
         IF m1.menu_selection = 3
         THEN LET m2 == IF cmd = CMD_LEFT \/ cmd = CMD_MOVE_LEFT
                        THEN VolumeDown(m1) ELSE m1
                  m3 == IF cmd = CMD_RIGHT \/ cmd = CMD_MOVE_RIGHT
                        THEN VolumeUp(m2) ELSE m2
                  m4 == IF IsConfirm(cmd) THEN ToggleMute(m3) ELSE m3
              IN  Outcome(m4, fs, FALSE, NoCall)
         ELSE IF IsConfirm(cmd)
         THEN LET m2 == Select(m1) IN
              IF m2.menu_selection = 0
              THEN Outcome(reset_game(m2), fs, FALSE, NoCall)
              ELSE IF m2.menu_selection = 1
              THEN Outcome([m2 EXCEPT !.state = STATE_TUTORIAL], fs, FALSE, NoCall)
              ELSE IF m2.menu_selection = 2
              THEN LET m3 == model_scan_saves(m2, io) IN
                   Outcome([m3 EXCEPT
                              !.state = STATE_LOAD_MENU,
                              !.menu_selection =
                                  IF m3.save_file_count > 0 THEN 0 ELSE @],
                           fs, FALSE, NoCall)
              ELSE IF m2.menu_selection = 4
              THEN Outcome(m2, fs, TRUE, NoCall)
              ELSE Outcome(m2, fs, FALSE, NoCall)
         ELSE Outcome(m1, fs, FALSE, NoCall)

\* a variant of InputLoadMenu whose Down wraps one item late
InputLoadMenuWrappingLate(m, cmd, fs, io) ==
    IF cmd = CMD_EXIT \/ cmd = CMD_PAUSE
    THEN Outcome([m EXCEPT !.state = STATE_MENU, !.menu_selection = 2],
                 fs, FALSE, NoCall)
    ELSE LET m1 == IF cmd = CMD_UP
                   THEN [m EXCEPT !.menu_selection =
                            IF @ - 1 < 0 THEN m.save_file_count - 1 ELSE @ - 1]
                   ELSE m
             m2 == IF cmd = CMD_DOWN
                   THEN [m1 EXCEPT !.menu_selection =
                            IF @ + 1 > m.save_file_count THEN 0 ELSE @ + 1]
                   ELSE m1
         IN  IF IsConfirm(cmd) /\ m2.save_file_count > 0
             THEN LET m3 == Select(m2)
                      filename == m3.save_files[m3.menu_selection]
                      res == model_load_named(m3, fs, filename)
                  IN  Outcome(res.model, fs, FALSE, LoadCall(filename, m3, fs, res.ok))
             ELSE Outcome(m2, fs, FALSE, NoCall)

InputLoadMenu(m, cmd, fs, io) ==
    IF cmd = CMD_EXIT \/ cmd = CMD_PAUSE
    THEN Outcome([m EXCEPT !.state = STATE_MENU, !.menu_selection = 2],
                 fs, FALSE, NoCall)
    ELSE LET m1 == IF cmd = CMD_UP
                   THEN [m EXCEPT !.menu_selection =
                            IF @ - 1 < 0 THEN m.save_file_count - 1 ELSE @ - 1]
                   ELSE m
             m2 == IF cmd = CMD_DOWN
                   THEN [m1 EXCEPT !.menu_selection =
                            IF @ + 1 >= m.save_file_count THEN 0 ELSE @ + 1]
                   ELSE m1
         IN  IF IsConfirm(cmd) /\ m2.save_file_count > 0
             THEN LET m3 == Select(m2)
                      filename == m3.save_files[m3.menu_selection]
                      res == model_load_named(m3, fs, filename)
                  IN  Outcome(res.model, fs, FALSE, LoadCall(filename, m3, fs, res.ok))
             ELSE Outcome(m2, fs, FALSE, NoCall)

InputTutorial(m, cmd, fs, io) ==
    IF cmd = CMD_EXIT \/ cmd = CMD_PAUSE \/ IsConfirm(cmd)
    THEN Outcome([Select(m) EXCEPT !.state = STATE_MENU, !.menu_selection = 1],
                 fs, FALSE, NoCall)
    ELSE Outcome(m, fs, FALSE, NoCall)

InputPlaying(m, cmd, fs, io) ==
    IF cmd = CMD_PAUSE
    THEN Outcome([m EXCEPT !.state = STATE_PAUSED, !.menu_selection = 0],
                 fs, FALSE, NoCall)
    ELSE LET m1 == IF cmd = CMD_MOVE_LEFT \/ cmd = CMD_LEFT
                   THEN [m EXCEPT !.player.dx = -PLAYER_SPEED]
                   ELSE IF cmd = CMD_MOVE_RIGHT \/ cmd = CMD_RIGHT
                   THEN [m EXCEPT !.player.dx = PLAYER_SPEED]
                   ELSE IF cmd = CMD_NONE
                   THEN [m EXCEPT !.player.dx = 0]
                   ELSE m
         IN  IF cmd = CMD_SHOOT /\ m1.player.shoot_timer <= 0
             THEN LET m2 == spawn_bullet(m1, m1.player.x + P(3) \div 2,
                                         m1.player.y - P(1), -BULLET_SPEED,
                                         ENTITY_BULLET_PLAYER)
                  IN  Outcome([m2 EXCEPT !.player.shoot_timer = Ticks(1, 2),
                                         !.sounds.play_shoot = TRUE],
                              fs, FALSE, NoCall)
             ELSE Outcome(m1, fs, FALSE, NoCall)

\* a variant of InputPaused whose Pause ends the invulnerability
InputPausedClearingTimer(m, cmd, fs, io) ==
    IF cmd = CMD_PAUSE
    THEN Outcome([m EXCEPT !.state = STATE_PLAYING, !.hit_timer = 0],
                 fs, FALSE, NoCall)
    ELSE Outcome([m EXCEPT !.menu_selection = Navigate(@, cmd, 3)],
                 fs, FALSE, NoCall)

InputPaused(m, cmd, fs, io) ==
    IF cmd = CMD_PAUSE
    THEN Outcome([m EXCEPT !.state = STATE_PLAYING], fs, FALSE, NoCall)
    ELSE LET m1 == [m EXCEPT !.menu_selection = Navigate(@, cmd, 3)] IN
         IF m1.menu_selection = 1
         THEN LET m2 == IF cmd = CMD_LEFT
                        THEN [m1 EXCEPT !.volume = IF @ < 10 THEN 0 ELSE @ - 10,
                                        !.is_muted = FALSE]
                        ELSE m1
                  m3 == IF cmd = CMD_RIGHT
                        THEN [m2 EXCEPT !.volume = IF @ > 90 THEN 100 ELSE @ + 10,
                                        !.is_muted = FALSE]
                        ELSE m2
                  m4 == IF IsConfirm(cmd) THEN ToggleMute(m3) ELSE m3
              IN  Outcome(m4, fs, FALSE, NoCall)
         ELSE IF IsConfirm(cmd)
         THEN LET m2 == Select(m1) IN
              IF m2.menu_selection = 0
              THEN Outcome([m2 EXCEPT !.state = STATE_PLAYING], fs, FALSE, NoCall)
              ELSE IF m2.menu_selection = 2
              THEN Outcome([model_scan_saves(m2, io) EXCEPT
                              !.state = STATE_SAVE_SELECT, !.menu_selection = 0],
                           fs, FALSE, NoCall)
              ELSE IF m2.menu_selection = 3
              THEN Outcome([m2 EXCEPT !.previous_state = STATE_PAUSED,
                                      !.state = STATE_CONFIRM_QUIT,
                                      !.menu_selection = 1],
                           fs, FALSE, NoCall)
              ELSE Outcome(m2, fs, FALSE, NoCall)
         ELSE Outcome(m1, fs, FALSE, NoCall)

InputGameOver(m, cmd, fs, io) ==
    LET m1 == [m EXCEPT !.menu_selection = Navigate(@, cmd, 2)] IN
    IF IsConfirm(cmd)
    THEN LET m2 == Select(m1) IN
         IF m2.menu_selection = 0
         THEN Outcome([model_scan_saves(m2, io) EXCEPT
                         !.state = STATE_SAVE_SELECT, !.menu_selection = 0],
                      fs, FALSE, NoCall)
         ELSE IF m2.menu_selection = 1
         THEN Outcome(reset_game(m2), fs, FALSE, NoCall)
         ELSE IF m2.menu_selection = 2
         THEN Outcome(m2, fs, TRUE, NoCall)
         ELSE Outcome(m2, fs, FALSE, NoCall)
    ELSE Outcome(m1, fs, FALSE, NoCall)

InputSaveSelect(m, cmd, fs, io) ==
    IF cmd = CMD_PAUSE \/ cmd = CMD_EXIT
    THEN Outcome([m EXCEPT !.state = STATE_PAUSED], fs, FALSE, NoCall)
    ELSE LET m1 == [m EXCEPT !.menu_selection = Navigate(@, cmd, m.save_file_count)] IN
         IF IsConfirm(cmd)
         THEN LET m2 == Select(m1) IN
              IF m2.menu_selection = 0
              THEN Outcome([m2 EXCEPT !.state = STATE_SAVE_INPUT,
                                      !.input_buffer = <<>>],
                           fs, FALSE, NoCall)
              ELSE LET f == m2.save_files[m2.menu_selection - 1]
                       len == Len(f) - 4
                   IN  Outcome([m2 EXCEPT
                                  !.input_buffer =
                                      IF len > 0 THEN SubSeq(f, 1, len) ELSE @,
                                  !.state = STATE_OVERWRITE_CONFIRM,
                                  !.menu_selection = 0],
                               fs, FALSE, NoCall)
         ELSE Outcome(m1, fs, FALSE, NoCall)

\* the tail shared by every save: the banner state and its timer
SaveSuccess(m) ==
    [m EXCEPT !.state = STATE_SAVE_SUCCESS, !.save_success_timer = Ticks(2, 1)]

\* a variant of InputSaveInput whose Confirm writes without asking
InputSaveInputOverwriting(m, cmd, fs, io) ==
    IF cmd = CMD_PAUSE
    THEN Outcome([m EXCEPT !.state = STATE_PAUSED], fs, FALSE, NoCall)
    ELSE IF IsConfirm(cmd) /\ Len(m.input_buffer) > 0
    THEN LET m1 == Select(m)
             filename == Truncate(m1.input_buffer \o DAT, 64)
         IN  Outcome(SaveSuccess(m1),
                     model_save_named(fs, m1, filename, io), FALSE,
                     SaveCall(filename, m1, io))
    ELSE IF cmd = CMD_BACKSPACE /\ Len(m.input_buffer) > 0
    THEN Outcome([m EXCEPT !.input_buffer = SubSeq(@, 1, Len(@) - 1)],
                 fs, FALSE, NoCall)
    ELSE Outcome(m, fs, FALSE, NoCall)

InputSaveInput(m, cmd, fs, io) ==
    IF cmd = CMD_PAUSE
    THEN Outcome([m EXCEPT !.state = STATE_PAUSED], fs, FALSE, NoCall)
    ELSE IF IsConfirm(cmd) /\ Len(m.input_buffer) > 0
    THEN LET m1 == Select(m)
             filename == Truncate(m1.input_buffer \o DAT, 64)
         IN  IF save_file_exists(fs, filename)
             THEN Outcome([m1 EXCEPT !.state = STATE_OVERWRITE_CONFIRM,
                                     !.menu_selection = 1],
                          fs, FALSE, NoCall)
             ELSE Outcome(SaveSuccess(m1),
                          model_save_named(fs, m1, filename, io), FALSE,
                          SaveCall(filename, m1, io))
    ELSE IF cmd = CMD_BACKSPACE /\ Len(m.input_buffer) > 0
    THEN Outcome([m EXCEPT !.input_buffer = SubSeq(@, 1, Len(@) - 1)],
                 fs, FALSE, NoCall)
    ELSE Outcome(m, fs, FALSE, NoCall)

InputOverwriteConfirm(m, cmd, fs, io) ==
    IF cmd = CMD_LEFT \/ cmd = CMD_RIGHT \/ cmd = CMD_UP \/ cmd = CMD_DOWN
    THEN Outcome([m EXCEPT !.menu_selection = IF @ = 0 THEN 1 ELSE 0],
                 fs, FALSE, NoCall)
    ELSE IF IsConfirm(cmd)
    THEN LET m1 == Select(m)
             filename == IF m1.menu_selection = 0
                         THEN Truncate(m1.input_buffer \o DAT, 64)
                         ELSE generate_unique_filename(fs, m1.input_buffer)
         IN  Outcome(SaveSuccess(m1),
                     model_save_named(fs, m1, filename, io), FALSE,
                     SaveCall(filename, m1, io))
    ELSE IF cmd = CMD_PAUSE
    THEN Outcome([m EXCEPT !.state = STATE_SAVE_INPUT], fs, FALSE, NoCall)
    ELSE Outcome(m, fs, FALSE, NoCall)

InputConfirmQuit(m, cmd, fs, io) ==
    LET m1 == [m EXCEPT !.menu_selection = Navigate(@, cmd, 2)] IN
    IF IsConfirm(cmd)
    THEN LET m2 == Select(m1) IN
         IF m2.menu_selection = 0
         THEN Outcome(m2, fs, TRUE, NoCall)
         ELSE IF m2.menu_selection = 1
         THEN Outcome([m2 EXCEPT
                         !.state = IF m2.previous_state = STATE_GAME_OVER
                                   THEN STATE_GAME_OVER ELSE STATE_PAUSED,
                         !.menu_selection = 3],
                      fs, FALSE, NoCall)
         ELSE IF m2.menu_selection = 2
         THEN Outcome([model_scan_saves(m2, io) EXCEPT
                         !.state = STATE_SAVE_SELECT, !.menu_selection = 0],
                      fs, FALSE, NoCall)
         ELSE Outcome(m2, fs, FALSE, NoCall)
    ELSE Outcome(m1, fs, FALSE, NoCall)

model_handle_input(m, cmd, fs, io) ==
    IF m.state = STATE_MENU THEN InputMenu(m, cmd, fs, io)
    ELSE IF m.state = STATE_LOAD_MENU THEN InputLoadMenu(m, cmd, fs, io)
    ELSE IF m.state = STATE_TUTORIAL THEN InputTutorial(m, cmd, fs, io)
    ELSE IF m.state = STATE_PLAYING THEN InputPlaying(m, cmd, fs, io)
    ELSE IF m.state = STATE_PAUSED THEN InputPaused(m, cmd, fs, io)
    ELSE IF m.state = STATE_GAME_OVER THEN InputGameOver(m, cmd, fs, io)
    ELSE IF m.state = STATE_SAVE_SELECT THEN InputSaveSelect(m, cmd, fs, io)
    ELSE IF m.state = STATE_SAVE_INPUT THEN InputSaveInput(m, cmd, fs, io)
    ELSE IF m.state = STATE_OVERWRITE_CONFIRM THEN InputOverwriteConfirm(m, cmd, fs, io)
    ELSE IF m.state = STATE_CONFIRM_QUIT THEN InputConfirmQuit(m, cmd, fs, io)
    ELSE Outcome(m, fs, FALSE, NoCall)

----------------------------------------------------------------------------
(* main.c: one pass of the driver loop over the input section *)

\* What the player does during one poll of the front end: a key, the
\* window's close button, or nothing.  KEY_Q stands for the letter keys: it
\* is a command key in both front ends and a character of the save name.
KEY_NONE == "none"
KEY_LEFT == "left"
KEY_RIGHT == "right"
KEY_UP == "up"
KEY_DOWN == "down"
KEY_SPACE == "space"
KEY_ENTER == "enter"
KEY_ESCAPE == "escape"
KEY_BACKSPACE == "backspace"
KEY_Q == "q"
WINDOW_CLOSE == "close"

Keys ==
    {KEY_NONE, KEY_LEFT, KEY_RIGHT, KEY_UP, KEY_DOWN, KEY_SPACE, KEY_ENTER,
     KEY_ESCAPE, KEY_BACKSPACE, KEY_Q, WINDOW_CLOSE}

Polled(cmd, m) == [cmd |-> cmd, model |-> m]

\* the command of a key outside the name prompt, in both front ends
MenuOrGameKey(m, key) ==
    IF key = KEY_LEFT
    THEN (IF m.state = STATE_PLAYING THEN CMD_MOVE_LEFT ELSE CMD_LEFT)
    ELSE IF key = KEY_RIGHT
    THEN (IF m.state = STATE_PLAYING THEN CMD_MOVE_RIGHT ELSE CMD_RIGHT)
    ELSE IF key = KEY_UP THEN CMD_UP
    ELSE IF key = KEY_DOWN THEN CMD_DOWN
    ELSE IF key = KEY_SPACE THEN CMD_SHOOT
    ELSE IF key = KEY_ENTER THEN CMD_RETURN
    ELSE IF key = KEY_ESCAPE THEN CMD_PAUSE
    ELSE CMD_NONE

\* view_ncurses.c: the terminal has no close button; at the name prompt a
\* name character is appended while the buffer holds fewer than 19
ncurses_get_input(m, key) ==
    IF m.state = STATE_SAVE_INPUT
    THEN IF key = KEY_ENTER THEN Polled(CMD_RETURN, m)
         ELSE IF key = KEY_ESCAPE THEN Polled(CMD_PAUSE, m)
         ELSE IF key = KEY_BACKSPACE THEN Polled(CMD_BACKSPACE, m)
         ELSE IF key = KEY_Q /\ Len(m.input_buffer) < 19
         THEN Polled(CMD_NONE, [m EXCEPT !.input_buffer = Append(@, "q")])
         ELSE Polled(CMD_NONE, m)
    ELSE IF key = KEY_Q
    THEN Polled(MenuOrGameKey(m, KEY_LEFT), m)
    ELSE Polled(MenuOrGameKey(m, key), m)

\* view_sdl.c: at the name prompt backspace and the name characters (space
\* gives "_") edit the buffer in place
sdl_get_input(m, key) ==
    IF key = WINDOW_CLOSE
    THEN Polled(CMD_EXIT, m)
    ELSE IF m.state = STATE_SAVE_INPUT
    THEN IF key = KEY_ENTER THEN Polled(CMD_RETURN, m)
         ELSE IF key = KEY_ESCAPE THEN Polled(CMD_PAUSE, m)
         ELSE IF key = KEY_BACKSPACE
         THEN Polled(CMD_NONE,
                     IF Len(m.input_buffer) > 0
                     THEN [m EXCEPT !.input_buffer = SubSeq(@, 1, Len(@) - 1)]
                     ELSE m)
         ELSE IF key \in {KEY_Q, KEY_SPACE} /\ Len(m.input_buffer) < MAX_FILENAME_LEN - 1
         THEN Polled(CMD_NONE,
                     [m EXCEPT !.input_buffer =
                         Append(@, IF key = KEY_Q THEN "q" ELSE "_")])
         ELSE Polled(CMD_NONE, m)
    ELSE IF key = KEY_Q
    THEN Polled(CMD_EXIT, m)
    ELSE Polled(MenuOrGameKey(m, key), m)

\* view->get_input(model)
get_input(m, v, key) ==
    IF v = "sdl" THEN sdl_get_input(m, key) ELSE ncurses_get_input(m, key)

\* a variant of DriverInput that asks for confirmation again in
\* STATE_CONFIRM_QUIT
DriverInputAsking(m, cmd, fs, io) ==
    IF cmd = CMD_EXIT
    THEN Outcome([m EXCEPT !.previous_state = m.state,
                           !.state = STATE_CONFIRM_QUIT,
                           !.menu_selection = 1],
                 fs, FALSE, NoCall)
    ELSE model_handle_input(m, cmd, fs, io)

\* a variant of DriverInput that leaves the cursor where it is when it asks
DriverInputKeepingCursor(m, cmd, fs, io) ==
    IF cmd = CMD_EXIT
    THEN IF m.state = STATE_CONFIRM_QUIT
         THEN Outcome(m, fs, TRUE, NoCall)
         ELSE Outcome([m EXCEPT !.previous_state = m.state,
                                !.state = STATE_CONFIRM_QUIT],
                      fs, FALSE, NoCall)
    ELSE model_handle_input(m, cmd, fs, io)

\* the CMD_EXIT rule of main and the dispatch to model_handle_input
DriverInput(m, cmd, fs, io) ==
    IF cmd = CMD_EXIT
    THEN IF m.state = STATE_CONFIRM_QUIT
         THEN Outcome(m, fs, TRUE, NoCall)
         ELSE Outcome([m EXCEPT !.previous_state = m.state,
                                !.state = STATE_CONFIRM_QUIT,
                                !.menu_selection = 1],
                      fs, FALSE, NoCall)
    ELSE model_handle_input(m, cmd, fs, io)

----------------------------------------------------------------------------
(* bounds of the model *)

\* model_update calls in one behaviour
MaxSteps == 5

\* environment events (a command, a flyer spawn, an enemy shot) in one
\* behaviour of the simulation scenarios
MaxEvents == 2

----------------------------------------------------------------------------
(* inputs *)

\* ten candidate shooters: a first, then b
Picks(a, b) == <<a, b, b, b, b, b, b, b, b, b>>

\* candidate indices tried: live slots of the scenarios and a slot that is
\* never populated
PickSet == {43, 54, MAX_ENEMIES - 1}

\* representative values of rand() % 500 and rand() % 100
SpawnRolls == {0, 1}
FireRolls == {0, 99}

\* rand() % 2 is drawn only after a winning spawn roll and the candidate
\* shooters only after a winning fire roll
RandDraws ==
    {r \in {RandDraw(sp, sd, f, Picks(a, MAX_ENEMIES - 1)) :
                sp \in SpawnRolls, sd \in 0 .. 1, f \in FireRolls, a \in PickSet} :
        /\ r.spawn # 0 => r.side = 0
        /\ r.fire # 0 => r.picks[1] = MAX_ENEMIES - 1}

\* the draw with no random event
QuietDraw == RandDraw(1, 0, 99, Picks(MAX_ENEMIES - 1, MAX_ENEMIES - 1))

\* the random events a draw causes in snapshot m: a flyer spawn, an enemy shot
SpawnsUfo(m, r) ==
    /\ m.state = STATE_PLAYING
    /\ ~m.ufo.active /\ ~m.ufo.hasSpawnedThisLevel /\ r.spawn = 0
    /\ \E i \in 0 .. MAX_ENEMIES - 1 : m.enemies[i].active

RollsFire(m, r) ==
    /\ m.state = STATE_PLAYING
    /\ ~LevelCleared(BeforeLevelCheck(m, DT, r))
    /\ r.fire < m.level * 2

RandomEvents(m, r) ==
    (IF SpawnsUfo(m, r) THEN 1 ELSE 0) + (IF RollsFire(m, r) THEN 1 ELSE 0)

----------------------------------------------------------------------------
(* snapshots of games in progress *)

\* the snapshot right after "new game" is confirmed in the main menu
NewGame == InputMenu(model_init, CMD_RETURN, <<>>, <<>>).model

\* an enemy shot earlier, its explosion over
Killed(e) == [e EXCEPT !.active = FALSE, !.exploding = TRUE, !.explode_timer = 0]

FormationSlots == 0 .. FORMATION_ROWS * FORMATION_COLS - 1

SlotPoints(i) == EnemyPoints(FormationEnemy(i \div FORMATION_COLS, 0).type)

\* points of the whole formation minus those of the enemies still alive
RECURSIVE PointsOf(_)
PointsOf(S) == IF S = {} THEN 0 ELSE SlotPoints(Min(S)) + PointsOf(S \ {Min(S)})

\* the game with only the enemies of `live` left, the others shot
WithLive(m, live) ==
    [m EXCEPT
        !.enemies = [i \in 0 .. MAX_ENEMIES - 1 |->
            IF i \in FormationSlots /\ i \notin live THEN Killed(@[i]) ELSE @[i]],
        !.score = PointsOf(FormationSlots) - PointsOf(live)]

\* a bullet n steps after it was spawned
RECURSIVE Fly(_, _)
Fly(b, n) == IF n = 0 THEN b ELSE Fly(MovedBullet(b, DT), n - 1)

PlayerBullet(x, n) ==
    Fly([ZeroEntity EXCEPT !.active = TRUE, !.x = x, !.y = P(GAME_HEIGHT - PLAYER_HEIGHT - 2),
            !.dy = -BULLET_SPEED, !.width = BULLET_WIDTH, !.height = BULLET_HEIGHT,
            !.type = ENTITY_BULLET_PLAYER], n)

\* a bullet shot n steps ago by an enemy of formation row `row`
EnemyBullet(x, row, n) ==
    Fly([ZeroEntity EXCEPT !.active = TRUE, !.x = x,
            !.y = FormationEnemy(row, 0).y + P(ENEMY_HEIGHT),
            !.dy = (BULLET_SPEED * 6) \div 10, !.width = BULLET_WIDTH,
            !.height = BULLET_HEIGHT, !.type = ENTITY_BULLET_ENEMY], n)

\* the bullet pool holding the bullets of sequence bs in its first slots
WithBullets(m, bs) ==
    [m EXCEPT !.bullets = [i \in 0 .. MAX_BULLETS - 1 |->
        IF i < Len(bs) THEN bs[i + 1] ELSE @[i]]]

\* the last enemy (slot 54) about to be hit by a player bullet
LastEnemy == WithBullets(WithLive(NewGame, {54}), <<PlayerBullet(P(66) + PosUnit \div 2, 15)>>)

\* the same with the flyer of this level already gone
LastEnemyFlown == [LastEnemy EXCEPT !.ufo = spawn_ufo(LastEnemy, 0).ufo,
                                    !.ufo.x = P(GAME_WIDTH) + 5,
                                    !.ufo.active = FALSE]

\* two enemies left (slots 43 and 54), a player bullet below slot 54
TwoEnemies == WithBullets(WithLive(NewGame, {43, 54}), <<PlayerBullet(P(66) + PosUnit \div 2, 14)>>)

\* every enemy shot, the flyer about to leave on the right
UfoLeaving == [WithLive(NewGame, {}) EXCEPT !.ufo = spawn_ufo(NewGame, 0).ufo,
                                            !.ufo.x = P(GAME_WIDTH) - 5,
                                            !.sounds.ufo_loopING = TRUE]

\* every enemy shot, the flyer hit and exploding
UfoExploding == [HitUfo(UfoLeaving, 0) EXCEPT !.ufo.x = P(50), !.ufo.explode_timer = 2,
                                              !.sounds.ufo_loopING = FALSE]

\* the flyer in flight above a player bullet that is about to hit it
UfoTarget == [WithBullets(WithLive(NewGame, {43, 54}),
                          <<PlayerBullet(P(49), 39)>>)
              EXCEPT !.ufo = spawn_ufo(NewGame, 0).ufo, !.ufo.x = P(47),
                     !.sounds.ufo_loopING = TRUE]

\* ten enemy bullets closing in on shield 0 from above, and the player, below
\* the shield, firing an eleventh bullet at it
Barrage ==
    LET m == WithBullets(WithLive(NewGame, {43, 54}),
                <<EnemyBullet(P(17), 4, 11), EnemyBullet(P(18), 3, 20),
                  EnemyBullet(P(19), 2, 28), EnemyBullet(P(20), 1, 36),
                  EnemyBullet(P(21), 0, 45), EnemyBullet(P(22), 4, 11),
                  EnemyBullet(P(17), 4, 10), EnemyBullet(P(18), 3, 19),
                  EnemyBullet(P(21), 0, 44), EnemyBullet(P(19), 4, 10)>>)
    IN  InputPlaying([m EXCEPT !.player.x = P(18) + 20], CMD_SHOOT, <<>>, <<>>).model

\* an enemy bullet about to hit the player, who has `lives` lives left
PlayerTarget(lives) ==
    [WithBullets(WithLive(NewGame, {43, 54}),
                 <<EnemyBullet(NewGame.player.x + P(2), 4, 25)>>)
     EXCEPT !.lives = lives]

\* the formation one step from the right boundary
AtEdge ==
    [NewGame EXCEPT !.enemies = [i \in 0 .. MAX_ENEMIES - 1 |->
        IF i \in FormationSlots THEN [@[i] EXCEPT !.x = @ + P(31) - 5] ELSE @[i]]]

Scenarios ==
    {NewGame, LastEnemy, LastEnemyFlown, TwoEnemies, UfoLeaving, UfoExploding,
     UfoTarget, Barrage, PlayerTarget(1), PlayerTarget(3), AtEdge}

----------------------------------------------------------------------------
(* the driver loop of main.c as actions *)

\* the top of the loop body, no model_update call made yet
FrameStart == [pc |-> "time", updates |-> 0]

\* a variant of LoopEnds that also leaves the loop when the game is paused
LoopEndsWhenPaused(m) == m.pending_quit \/ m.state = STATE_PAUSED

\* the test that closes every frame: the loop ends when the flag is set
LoopEnds(m) == m.pending_quit

\* the ghost record of saves: a completed save remembers the snapshot it wrote
Forget(snaps, name) == [n \in DOMAIN snaps \ {name} |-> snaps[n]]

Remember(snaps, call) ==
    IF call.fn = "model_save_named" /\ call.ok
    THEN (PathName(call.filename) :> call.snapshot) @@ snaps
    ELSE IF call.fn = "model_save_named" /\ call.opened
    THEN Forget(snaps, PathName(call.filename))
    ELSE snaps

\* section B of the loop: get_input, then the CMD_EXIT rule or
\* model_handle_input
Input(key, io) ==
    /\ running
    /\ LET got == get_input(model, view, key)
           out == DriverInput(got.model, got.cmd, files, io)
       IN  /\ model' = out.model
           /\ files' = out.files
           /\ running' = (~out.exit /\ ~LoopEnds(out.model))
           /\ lastCall' = out.call
           /\ savedSnap' = Remember(savedSnap, out.call)
    /\ UNCHANGED <<view, steps, accumulator, frame>>

\* the flow-states in which model_update advances a clock; in the others it
\* returns at once
ClockStates == {STATE_PLAYING, STATE_GAME_OVER, STATE_SAVE_SUCCESS}

\* the call model_update(m, dt) with rand() results r: no file is touched;
\* sections B and C leave the flyer and the enemies alone, so section D sees
\* them as m holds them
UpdateCall(m, dt, r) ==
    [NoCall EXCEPT
        !.flyer = m.state = STATE_PLAYING /\ UpdateUfo(m, dt, r).ufo.active]

\* section C of the loop: one call model_update(model, dt), its rand()
\* results being r; steps counts the calls that advance a clock
Update(r) ==
    /\ running
    /\ LET out == model_update(model, DT, r)
       IN  /\ model' = out.model
           /\ running' = (~out.exit /\ ~LoopEnds(out.model))
    /\ steps' = IF model.state \in ClockStates THEN steps + 1 ELSE steps
    /\ lastCall' = UpdateCall(model, DT, r)
    /\ UNCHANGED <<files, view, savedSnap, accumulator, frame>>

\* an io environment for commands that touch no file
NoIo == IoEnv(FALSE, 0, FALSE, <<>>)

----------------------------------------------------------------------------
(* SimSpec: games in progress, a few steps each *)

SimKeys == {KEY_NONE, KEY_LEFT, KEY_RIGHT, KEY_SPACE}

SimInit ==
    /\ model \in Scenarios
    /\ files = <<>>
    /\ running = TRUE
    /\ accumulator = 0
    /\ frame = FrameStart
    /\ view = "ncurses"
    /\ steps = 0
    /\ events = 0
    /\ lastCall = NoCall
    /\ savedSnap = <<>>

SimInput ==
    /\ events < MaxEvents
    /\ \E key \in SimKeys : Input(key, NoIo)
    /\ events' = events + 1

SimUpdate ==
    /\ steps < MaxSteps
    /\ \E r \in RandDraws :
          /\ events + RandomEvents(model, r) <= MaxEvents
          /\ Update(r)
          /\ events' = events + RandomEvents(model, r)

SimNext == SimInput \/ SimUpdate

SimSpec == SimInit /\ [][SimNext]_vars

\* a step of the simulation, in any specification
IsUpdate == steps' = steps + 1

----------------------------------------------------------------------------
(* RunSpec: two simulated seconds of player movement *)

RunSteps == 2 * TARGET_FPS

RunKeys == {KEY_LEFT, KEY_RIGHT}

\* a game in which the player stands at x = 47 and is told to move right
RunStart ==
    InputPlaying([NewGame EXCEPT !.player.x = P(47)], CMD_MOVE_RIGHT, <<>>, <<>>).model

RunInit ==
    /\ model = RunStart
    /\ files = <<>>
    /\ running = TRUE
    /\ accumulator = 0
    /\ frame = FrameStart
    /\ view = "ncurses"
    /\ steps = 0
    /\ events = 0
    /\ lastCall = NoCall
    /\ savedSnap = <<>>

\* here an event is a key other than "right"; they are counted up
\* to MaxEvents
RunInput ==
    \E key \in RunKeys :
        /\ Input(key, NoIo)
        /\ events' = IF key = KEY_RIGHT \/ events = MaxEvents
                     THEN events ELSE events + 1

RunUpdate ==
    /\ steps < RunSteps
    /\ Update(QuietDraw)
    /\ UNCHANGED events

RunNext == RunInput \/ RunUpdate

RunSpec == RunInit /\ [][RunNext]_vars

----------------------------------------------------------------------------
(* the simulation step: claims C1 to C7 *)

SimulationStep == IsUpdate /\ model.state = STATE_PLAYING

AllBullets == 0 .. MAX_BULLETS - 1
AllShields == 0 .. MAX_SHIELDS - 1

\* C1: a simulation step is a function of the previous snapshot and dt alone:
\* whatever rand() returns during the call, the snapshot it produces is the
\* same.
C1_StepIsFunctionOfSnapshot ==
    (running /\ model.state = STATE_PLAYING) =>
        \A r1 \in RandDraws, r2 \in RandDraws :
            model_update(model, DT, r1) = model_update(model, DT, r2)

\* slots 0..54 of m hold a fresh 5 x 11 formation: row 0 of type 3, rows 1-2
\* of type 2, rows 3-4 of type 1, one x per column and one y per row
Regenerated(m) ==
    /\ \A i \in FormationSlots :
          LET row == i \div FORMATION_COLS
              e == m.enemies[i]
          IN  /\ e.active /\ ~e.exploding
              /\ e.type = (IF row = 0 THEN ENTITY_ENEMY_TYPE_3
                           ELSE IF row \in {1, 2} THEN ENTITY_ENEMY_TYPE_2
                           ELSE ENTITY_ENEMY_TYPE_1)
    /\ \A i \in FormationSlots, j \in FormationSlots :
          /\ (i \div FORMATION_COLS = j \div FORMATION_COLS)
                <=> (m.enemies[i].y = m.enemies[j].y)
          /\ (i % FORMATION_COLS = j % FORMATION_COLS)
                <=> (m.enemies[i].x = m.enemies[j].x)

\* the enemies of the snapshot that are active and not exploding
LiveSlots == {i \in 0 .. MAX_ENEMIES - 1 :
                model.enemies[i].active /\ ~model.enemies[i].exploding}

\* C2: in a simulation step the level goes up, by exactly 1, if and only if no
\* enemy is active and not exploding and the flyer, after its own update in
\* that step, is inactive; slots 0..54 then hold a fresh 5 x 11 formation.
C2_LevelTransition ==
    [][SimulationStep =>
        IF LiveSlots = {} /\ ~lastCall'.flyer
        THEN model'.level = model.level + 1 /\ Regenerated(model')
        ELSE model'.level = model.level]_vars

\* C2 witness: the last enemy was shot and the next step raised the level
C2_Witness ==
    /\ steps = 2 /\ model.level = 2 /\ model.sounds.play_level_up
    /\ Regenerated(model) /\ model.score = PointsOf(FormationSlots)

\* C3: the flyer is in flight only with the per-level flag set; a flyer
\* appears only while the flag is clear, and its appearance sets the flag; the
\* flag is cleared only by a step that regenerates the formation.
C3_OneFlyerPerLevel ==
    /\ [](model.ufo.active => model.ufo.hasSpawnedThisLevel)
    /\ [][/\ (~model.ufo.active /\ model'.ufo.active) =>
                (~model.ufo.hasSpawnedThisLevel /\ model'.ufo.hasSpawnedThisLevel)
          /\ (model.ufo.hasSpawnedThisLevel /\ ~model'.ufo.hasSpawnedThisLevel) =>
                Regenerated(model')]_vars

\* C3 witness: a flyer that appeared during this run, on the right side
C3_Witness ==
    /\ steps >= 1 /\ model.ufo.active /\ model.ufo.hasSpawnedThisLevel
    /\ model.ufo.dx < 0 /\ model.ufo.x <= P(GAME_WIDTH)
    /\ model.ufo.x > P(GAME_WIDTH) - MaxSteps * 5

\* C4: over simulation steps no barrier's health increases; health is never
\* negative, and a barrier whose health is 0 is inactive.
C4_BarrierHealth ==
    /\ [](\A s \in AllShields :
            /\ model.shields[s].health >= 0
            /\ model.shields[s].health = 0 => ~model.shields[s].active)
    /\ [][IsUpdate =>
            \A s \in AllShields : model'.shields[s].health <= model.shields[s].health]_vars

\* C4 witness: a barrier worn down to 0 during this run
C4_Witness ==
    /\ steps >= 1
    /\ \E s \in AllShields : model.shields[s].health = 0 /\ ~model.shields[s].active

\* the bullets that meet barrier s in the coming step
Hitters(s) ==
    {i \in AllBullets :
        /\ model.bullets[i].active
        /\ ~OutOfBounds(MovedBullet(model.bullets[i], DT))
        /\ Overlaps(MovedBullet(model.bullets[i], DT), model.shields[s])}

\* the first n of them in slot order
FirstOf(S, n) == {i \in S : Cardinality({j \in S : j < i}) < n}

\* C5: a barrier consumes one bullet per point of health and no more. In a
\* step, of the bullets that meet barrier s the first health(s) ones are
\* consumed, its health drops by their number, it is inactive once its health
\* is 0, and the remaining ones go on to the ordinary collision checks (they
\* stay in flight unless they score or cost a life).
C5_BarrierConsumesHealthBullets ==
    [][(SimulationStep /\ model'.level = model.level) =>
        \A s \in AllShields :
            LET health == IF model.shields[s].active THEN model.shields[s].health ELSE 0
                taken == FirstOf(Hitters(s), health)
            IN  /\ model'.shields[s].health = model.shields[s].health - Cardinality(taken)
                /\ model'.shields[s].active <=>
                      (model.shields[s].active /\ model'.shields[s].health > 0)
                /\ \A i \in taken : ~model'.bullets[i].active
                /\ \A i \in Hitters(s) \ taken :
                      \/ model'.bullets[i].active
                      \/ model'.score # model.score
                      \/ model'.lives # model.lives]_vars

\* C5 witness: barrier 0 of the barrage has consumed ten bullets and is
\* inactive; the eleventh bullet is in flight inside its rectangle
C5_Witness ==
    /\ model.shields[0].health = 0 /\ ~model.shields[0].active
    /\ Cardinality({i \in 0 .. 10 : ~model.bullets[i].active}) = SHIELD_MAX_HEALTH
    /\ \E i \in 0 .. 10 :
          model.bullets[i].active /\ Overlaps(model.bullets[i], model.shields[0])

\* C6 as stated: every bullet in flight before and after a simulation step
\* has moved, a player bullet up and an enemy bullet down.
C6_EveryBulletMoves ==
    [][SimulationStep =>
        \A i \in AllBullets :
            (model.bullets[i].active /\ model'.bullets[i].active) =>
                /\ model.bullets[i].type = ENTITY_BULLET_PLAYER =>
                      model'.bullets[i].y < model.bullets[i].y
                /\ model.bullets[i].type = ENTITY_BULLET_ENEMY =>
                      model'.bullets[i].y > model.bullets[i].y]_vars

\* C6 amended: that holds in every simulation step that does not raise the
\* level; a step that raises the level leaves the bullets as they were.
C6_BulletsMoveUnlessLevelUp ==
    [][SimulationStep =>
        IF model'.level = model.level
        THEN \A i \in AllBullets :
                (model.bullets[i].active /\ model'.bullets[i].active) =>
                    /\ model.bullets[i].type = ENTITY_BULLET_PLAYER =>
                          model'.bullets[i].y < model.bullets[i].y
                    /\ model.bullets[i].type = ENTITY_BULLET_ENEMY =>
                          model'.bullets[i].y > model.bullets[i].y
        ELSE model'.bullets = model.bullets]_vars

\* C6 witness: the level was raised with a bullet in flight
C6_Witness ==
    /\ steps >= 1 /\ model.level = 2 /\ model.sounds.play_level_up
    /\ \E i \in AllBullets : model.bullets[i].active

\* C7: the player's x is always within [0, GAME_WIDTH - PLAYER_WIDTH]; the
\* player who starts at x = 47 and moves right during all of the 120 steps
\* ends at exactly 95.
C7_PlayerStaysInField ==
    /\ 0 <= model.player.x
    /\ model.player.x <= P(GAME_WIDTH - PLAYER_WIDTH)
    /\ (steps = RunSteps /\ events = 0) => model.player.x = P(95)

\* C7 witness: the end of that run
C7_Witness ==
    /\ steps = RunSteps /\ events = 0
    /\ model.state = STATE_PLAYING /\ model.player.x = P(95)

----------------------------------------------------------------------------
(* Spec: one run of the program over its save directory *)

\* files the save directory holds at most
MaxFiles == 4

\* characters typed into a save name at most
MaxName == 2

\* keys pressed in one run at most
MaxKeys == 7

Views == {"ncurses", "sdl"}

\* a game paused right after the player lost a life
PausedGame ==
    InputPlaying(UpdatePlaying(PlayerTarget(3), DT, QuietDraw), CMD_PAUSE, <<>>, <<>>).model

\* an io environment in which everything succeeds, the directory being empty
GoodIo == IoEnv(TRUE, 1, TRUE, <<>>)

\* the snapshot written when paused game m is saved under a new name: the
\* save item of the pause menu, "new file", the name, Confirm
SavedAs(m, name) ==
    LET slot == InputPaused([m EXCEPT !.menu_selection = 2], CMD_RETURN, <<>>, GoodIo).model
        prompt == InputSaveSelect(slot, CMD_RETURN, <<>>, GoodIo).model
    IN  InputSaveInput([prompt EXCEPT !.input_buffer = name], CMD_RETURN, <<>>, GoodIo).call.snapshot

\* directories left by earlier runs: q.dat cut short by an interrupted write;
\* q.dat holding the paused game
ShortDisk == (<<"q">> \o DAT) :> FileContent(0, NoImage)
OldDisk == (<<"q">> \o DAT) :> FileContent(1, SavedAs(PausedGame, <<"q">>))

\* the snapshots the complete files of directory fs were written from
Written(fs) ==
    [n \in {k \in DOMAIN fs : fs[k].records = 1} |-> fs[n].image]

RECURSIVE Orders(_)
Orders(S) ==
    IF S = {} THEN {<<>>}
    ELSE UNION {{<<n>> \o rest : rest \in Orders(S \ {n})} : n \in S}

\* what readdir may report for directory fs
Listings(fs) == {<<<<".">>, <<".", ".">>>> \o names : names \in Orders(DOMAIN fs)}

\* the environments of a command: a full directory refuses new files
IoEnvs(fs) ==
    {IoEnv(c, w, d, l) :
        c \in (IF Cardinality(DOMAIN fs) < MaxFiles THEN BOOLEAN ELSE {FALSE}),
        w \in 0 .. 1, d \in BOOLEAN, l \in Listings(fs) \cup {<<>>}}

ValidIo(io) ==
    /\ ~io.can_open => io.written = 0
    /\ ~io.dir_ok <=> io.listing = <<>>

\* Moving and firing are explored by SimSpec and RunSpec: here the player
\* pauses, quits, waits and walks through the menus, and leaves the volume
\* as it is.
Plays(m, v, key) ==
    LET cmd == get_input(m, v, key).cmd IN
    \/ cmd \in {CMD_MOVE_LEFT, CMD_MOVE_RIGHT, CMD_LEFT, CMD_RIGHT}
    \/ cmd = CMD_SHOOT /\ m.state = STATE_PLAYING

Typing(m, v, key) ==
    /\ m.state = STATE_SAVE_INPUT
    /\ key = KEY_Q \/ (key = KEY_SPACE /\ v = "sdl")

Init ==
    /\ model \in {model_init, PausedGame}
    /\ files \in {<<>>, ShortDisk, OldDisk}
    /\ running = TRUE
    /\ accumulator = 0
    /\ frame = FrameStart
    /\ view \in Views
    /\ steps = 0
    /\ events = 0
    /\ lastCall = NoCall
    /\ savedSnap = Written(files)

\* a key whose command reads or writes no file (here events counts the keys)
Key ==
    \E key \in Keys \ {KEY_ENTER, KEY_SPACE} :
        /\ ~Plays(model, view, key)
        /\ Typing(model, view, key) => Len(model.input_buffer) < MaxName
        /\ events < MaxKeys
        /\ Input(key, NoIo)
        /\ events' = IF key = KEY_NONE THEN events ELSE events + 1

\* Confirm (and Shoot)
Confirm ==
    \E key \in {KEY_ENTER, KEY_SPACE} :
        /\ ~Plays(model, view, key)
        /\ Typing(model, view, key) => Len(model.input_buffer) < MaxName
        /\ events < MaxKeys
        /\ \E io \in {e \in IoEnvs(files) : ValidIo(e)} : Input(key, io)
        /\ events' = events + 1

\* the random events of a step are explored by SimSpec
Step ==
    /\ steps < MaxSteps
    /\ Update(QuietDraw)
    /\ UNCHANGED events

\* somebody removes a file while the load menu shows it
Unlink ==
    /\ running /\ model.state = STATE_LOAD_MENU
    /\ \E name \in DOMAIN files :
          /\ files' = [n \in DOMAIN files \ {name} |-> files[n]]
          /\ savedSnap' = Forget(savedSnap, name)
    /\ lastCall' = NoCall
    /\ UNCHANGED <<model, running, view, steps, events, accumulator, frame>>

Next == Key \/ Confirm \/ Step \/ Unlink

Spec == Init /\ [][Next]_vars

----------------------------------------------------------------------------
(* persistence: claims C8 to C10 *)

\* a snapshot as a successful load leaves it
Loaded(S) ==
    [S EXCEPT !.state = STATE_PLAYING, !.hit_timer = 0, !.sounds = ZeroSoundState]

SaveNames == {<<"q">> \o DAT, <<"q", "q">> \o DAT}

\* C8: saving a snapshot under a name and then loading that name succeeds and
\* yields the snapshot, except that flow-state is Playing, the invulnerability
\* timer is 0 and the audio requests are cleared.  This holds of the two
\* functions applied to the current snapshot, and of every load the program
\* performs, whose file was written from the snapshot savedSnap remembers.
C8_SaveLoadRoundTrip ==
    /\ [](\A name \in SaveNames, current \in {model_init, model} :
            model_load_named(current,
                             model_save_named(files, model, name, GoodIo), name)
                = [ok |-> TRUE, model |-> Loaded(model)])
    /\ [][(lastCall'.fn = "model_load_named" /\ lastCall'.ok) =>
            /\ PathName(lastCall'.filename) \in DOMAIN savedSnap
            /\ model' = Loaded(savedSnap[PathName(lastCall'.filename)])]_vars

\* C8 witness: a game saved with the invulnerability timer running and audio
\* requests pending has just been loaded
C8_Witness ==
    /\ lastCall.fn = "model_load_named" /\ lastCall.ok
    /\ model.state = STATE_PLAYING /\ model.hit_timer = 0
    /\ model.sounds = ZeroSoundState
    /\ LET S == savedSnap[PathName(lastCall.filename)] IN
          /\ S.state # STATE_PLAYING /\ S.hit_timer > 0 /\ S.sounds # ZeroSoundState
          /\ model.lives = S.lives /\ model.bullets = S.bullets

\* C9: a load that fails (no such file, or a file that does not hold one full
\* record) returns false and leaves the snapshot as it was before the call.
\* This holds of the function applied to the current snapshot, and of every
\* failed load the program performs: the snapshot after the command is the
\* one given to the call, still in STATE_LOAD_MENU.
C9_FailedLoadChangesNothing ==
    /\ [](\A name \in SaveNames :
            ~LoadSucceeds(files, name) =>
                model_load_named(model, files, name) = [ok |-> FALSE, model |-> model])
    /\ [][(lastCall'.fn = "model_load_named" /\ ~lastCall'.ok) =>
            /\ ~LoadSucceeds(files, lastCall'.filename)
            /\ model' = lastCall'.snapshot
            /\ model' = Select(model)
            /\ model'.state = STATE_LOAD_MENU]_vars

\* C9 witness: a load has just failed on a file cut short
C9_Witness ==
    /\ lastCall.fn = "model_load_named" /\ ~lastCall.ok /\ lastCall.opened
    /\ model.state = STATE_LOAD_MENU
    /\ files[PathName(lastCall.filename)].records = 0

\* C10: when a command saves and the file cannot be opened for writing, the
\* snapshot (its audio requests apart) is what it was before the command,
\* flow-state and timers included, and the program keeps running.
C10_FailedSaveChangesNothing ==
    [][(lastCall'.fn = "model_save_named" /\ ~lastCall'.opened) =>
        /\ [model' EXCEPT !.sounds = model.sounds] = model
        /\ running']_vars

\* the state C10 is refuted in: the save could not open its file and the
\* program shows the success banner
C10_BannerAfterFailedSave ==
    /\ lastCall.fn = "model_save_named" /\ ~lastCall.opened
    /\ model.state = STATE_SAVE_SUCCESS /\ model.save_success_timer = Ticks(2, 1)

----------------------------------------------------------------------------
(* CopySpec: a run that starts at the name prompt, over a directory that
   already holds the name typed and some of its numbered copies *)

\* the name prompt of the paused game, "q" typed
NamePrompt ==
    LET slot == InputPaused([PausedGame EXCEPT !.menu_selection = 2],
                            CMD_RETURN, <<>>, GoodIo).model
        prompt == InputSaveSelect(slot, CMD_RETURN, <<>>, GoodIo).model
    IN  [prompt EXCEPT !.input_buffer = <<"q">>]

\* what sprintf("%s(%d).dat", base, n) writes
Copy(base, n) == base \o <<"(">> \o Decimal(n) \o <<")">> \o DAT

\* q.dat and any of q(1).dat, q(2).dat, each holding the paused game
CopyDisks ==
    {[f \in {<<"q">> \o DAT} \cup {Copy(<<"q">>, n) : n \in N}
        |-> FileContent(1, SavedAs(PausedGame, <<"q">>))] : N \in SUBSET {1, 2}}

CopyInit ==
    /\ model = NamePrompt
    /\ files \in CopyDisks
    /\ running = TRUE
    /\ accumulator = 0
    /\ frame = FrameStart
    /\ view \in Views
    /\ steps = 0
    /\ events = 0
    /\ lastCall = NoCall
    /\ savedSnap = Written(files)

\* keys pressed in such a run at most
MaxCopyKeys == 3

\* the player answers the prompt and the question that follows
CopyNext ==
    \/ events < MaxCopyKeys /\ Key
    \/ events < MaxCopyKeys /\ Confirm
    \/ Step

CopySpec == CopyInit /\ [][CopyNext]_vars

----------------------------------------------------------------------------
(* the driver's CMD_EXIT rule: claims C12 and C13 *)

\* the keys that the front end v turns into CMD_EXIT in snapshot m
ExitKeys(m, v) == {key \in Keys : get_input(m, v, key).cmd = CMD_EXIT}

\* C12: CMD_EXIT received in STATE_CONFIRM_QUIT ends the process in that
\* frame, wherever the cursor is: the driver calls exit(0) without giving the
\* command to model_handle_input, so the snapshot and the files stay as they
\* are, and once the process has ended nothing more happens (no step).
C12_ExitInConfirmQuitTerminates ==
    /\ []((running /\ model.state = STATE_CONFIRM_QUIT) =>
            DriverInput(model, CMD_EXIT, files, NoIo)
                = Outcome(model, files, TRUE, NoCall))
    /\ [][\A key \in ExitKeys(model, view) :
            (model.state = STATE_CONFIRM_QUIT /\ Input(key, NoIo)) =>
                (~running' /\ model' = model /\ steps' = steps)]_vars
    /\ [][running]_vars

\* C12 witness: the process has ended in STATE_CONFIRM_QUIT with the cursor
\* on an item other than "quit" and no selection sound requested
C12_Witness ==
    /\ ~running /\ model.state = STATE_CONFIRM_QUIT
    /\ model.menu_selection = 2 /\ ~model.sounds.play_select_sound

\* snapshot after is snapshot before with previous_state set to the state
\* that was current, state STATE_CONFIRM_QUIT, the cursor on 1, and every
\* other field as it was
AskedToQuit(before, after) ==
    /\ after.previous_state = before.state
    /\ after.state = STATE_CONFIRM_QUIT
    /\ after.menu_selection = 1
    /\ \A f \in DOMAIN before \ {"previous_state", "state", "menu_selection"} :
          after[f] = before[f]

\* C13: CMD_EXIT received in a flow-state other than STATE_CONFIRM_QUIT
\* records that state as the previous one, enters STATE_CONFIRM_QUIT with the
\* cursor on 1 and changes nothing else; the process goes on.
C13_ExitAsksForConfirmation ==
    /\ []((running /\ model.state # STATE_CONFIRM_QUIT) =>
            LET out == DriverInput(model, CMD_EXIT, files, NoIo) IN
            AskedToQuit(model, out.model) /\ ~out.exit /\ out.files = files)
    /\ [][\A key \in ExitKeys(model, view) :
            (model.state # STATE_CONFIRM_QUIT /\ Input(key, NoIo)) =>
                (AskedToQuit(model, model') /\ running' /\ files' = files)]_vars

\* C13 witness: the question is shown over the main menu
C13_Witness ==
    /\ running /\ view = "sdl"
    /\ model.state = STATE_CONFIRM_QUIT /\ model.previous_state = STATE_MENU
    /\ model.menu_selection = 1 /\ lastCall = NoCall

----------------------------------------------------------------------------
(* the step outside STATE_PLAYING: claims C14 and C15 *)

\* C14: once flow-state is STATE_SAVE_SUCCESS nothing but the end of the
\* process follows: no operation shows another flow-state, each step takes dt
\* off the banner's timer, and the step that brings it to 0 or below ends
\* the process.
C14_SavingEndsTheProcess ==
    [][model.state = STATE_SAVE_SUCCESS =>
        /\ model'.state = STATE_SAVE_SUCCESS
        /\ IsUpdate =>
              /\ model'.save_success_timer = model.save_success_timer - DT
              /\ running' <=> model'.save_success_timer > 0]_vars

\* the state C14 is refuted in: the graphical front end has turned a key
\* into CMD_EXIT while the banner was shown; the banner's timer has stopped
\* and Confirm, the cursor being on "no", resumes the paused game
C14_QuestionOverBanner ==
    /\ running /\ view = "sdl"
    /\ model.state = STATE_CONFIRM_QUIT
    /\ model.previous_state = STATE_SAVE_SUCCESS
    /\ model.save_success_timer > 0
    /\ model_update(model, DT, QuietDraw) = [model |-> model, exit |-> FALSE]
    /\ DriverInput(model, CMD_RETURN, files, NoIo).model.state = STATE_PAUSED

\* the draw that wins the spawn roll and the fire roll
LoudDraw == RandDraw(0, 0, 0, Picks(43, MAX_ENEMIES - 1))

FlowStates ==
    {STATE_MENU, STATE_PLAYING, STATE_PAUSED, STATE_TUTORIAL, STATE_GAME_OVER,
     STATE_VICTORY, STATE_CONFIRM_QUIT, STATE_SAVE_INPUT, STATE_LOAD_MENU,
     STATE_OVERWRITE_CONFIRM, STATE_SAVE_SELECT, STATE_SAVE_SUCCESS}

\* snapshot m after a step of dt outside STATE_PLAYING, as C15 has it
Idle(m, dt) ==
    IF m.state = STATE_SAVE_SUCCESS
    THEN [m EXCEPT !.save_success_timer = @ - dt]
    ELSE IF m.state = STATE_GAME_OVER
    THEN [m EXCEPT !.game_over_timer = @ + dt]
    ELSE m

\* C15: outside STATE_PLAYING a step does no physics: in STATE_SAVE_SUCCESS
\* it changes save_success_timer only, in STATE_GAME_OVER game_over_timer
\* only, and in every other flow-state nothing.  Stated of the step applied
\* to the snapshot the program holds, in the flow-state it is in and in each
\* other flow-state but STATE_PLAYING, whether rand() would return losing
\* rolls or winning ones.
C15_NoPhysicsOutsidePlaying ==
    \A st \in FlowStates \ {STATE_PLAYING}, r \in {QuietDraw, LoudDraw} :
        LET m == [model EXCEPT !.state = st] IN
        model_update(m, DT, r).model = Idle(m, DT)

\* C15 witness: two steps have passed under the banner of a paused game
\* that was saved, and only its timer has moved
C15_Witness ==
    /\ model.state = STATE_SAVE_SUCCESS /\ steps = 2
    /\ model.save_success_timer = Ticks(2, 1) - 2 * DT
    /\ [model EXCEPT !.save_success_timer = 0, !.state = 0, !.sounds = 0,
                      !.menu_selection = 0, !.input_buffer = 0,
                      !.save_files = 0, !.save_file_count = 0,
                      !.previous_state = 0]
         = [PausedGame EXCEPT !.save_success_timer = 0, !.state = 0, !.sounds = 0,
                              !.menu_selection = 0, !.input_buffer = 0,
                              !.save_files = 0, !.save_file_count = 0,
                              !.previous_state = 0]

----------------------------------------------------------------------------
(* the front end: claim C16 *)

\* C16: polling the front end for a command changes no field of the
\* snapshot other than the audio requests, whatever key was pressed.
C16_PollingKeepsSnapshot ==
    \A key \in Keys :
        [get_input(model, view, key).model EXCEPT !.sounds = model.sounds] = model

\* the state C16 is refuted in: at the name prompt, where the front end has
\* written the character typed into input_buffer itself and would erase it
\* again (graphical front end) on backspace, each time returning CMD_NONE
C16_NameTypedByPolling ==
    /\ running /\ view = "sdl"
    /\ model.state = STATE_SAVE_INPUT /\ model.input_buffer = <<"q">>
    /\ get_input(model, view, KEY_BACKSPACE)
         = Polled(CMD_NONE, [model EXCEPT !.input_buffer = <<>>])
    /\ get_input(model, view, KEY_Q)
         = Polled(CMD_NONE, [model EXCEPT !.input_buffer = <<"q", "q">>])

----------------------------------------------------------------------------
(* RestartSpec: a run that starts at the main menu of a program just started,
   or at the game-over screen of a lost game *)

\* game s with one life left, lost in the next step to an enemy bullet that
\* is about to reach the player
Lost(s) ==
    LET b == EnemyBullet(s.player.x + P(2), 4, 25)
        m == [s EXCEPT !.lives = 1, !.hit_timer = 0]
    IN  UpdatePlaying(spawn_bullet(m, b.x, b.y, b.dy, b.type), DT, QuietDraw)

LostGames == {m \in {Lost(s) : s \in Scenarios} : m.state = STATE_GAME_OVER}

RestartInit ==
    /\ model \in LostGames \cup {model_init}
    /\ files = <<>>
    /\ running = TRUE
    /\ accumulator = 0
    /\ frame = FrameStart
    /\ view \in Views
    /\ steps = 0
    /\ events = 0
    /\ lastCall = NoCall
    /\ savedSnap = <<>>

RestartSpec == RestartInit /\ [][CopyNext]_vars

\* snapshot m is a new game
Fresh(m) ==
    /\ m.state = STATE_PLAYING
    /\ m.score = 0 /\ m.lives = 3 /\ m.level = 1 /\ m.hit_timer = 0
    /\ \A i \in AllBullets : ~m.bullets[i].active
    /\ Regenerated(m)
    /\ m.direction_enemies = 1 /\ m.drop_step_count = 0
    /\ ~m.ufo.active /\ ~m.ufo.hasSpawnedThisLevel
    /\ \A i \in AllShields :
          m.shields[i].active /\ m.shields[i].health = SHIELD_MAX_HEALTH
    /\ 2 * m.player.x + P(PLAYER_WIDTH) = P(GAME_WIDTH)
    /\ m.player.dx = 0

\* C17: Confirm on item 0 of the main menu, or on item 1 of the game-over
\* menu, starts a new game: STATE_PLAYING, score 0, 3 lives, level 1, no
\* invulnerability, no bullet, the full formation moving right with drop
\* counter 0, no flyer and its flag clear, four barriers at full health, the
\* player centred and still.
C17_NewGameIsFresh ==
    [][\A key \in {KEY_ENTER, KEY_SPACE} :
        (/\ \/ model.state = STATE_MENU /\ model.menu_selection = 0
            \/ model.state = STATE_GAME_OVER /\ model.menu_selection = 1
         /\ Input(key, NoIo)) => Fresh(model')]_vars

\* C17 witness: a new game started from the game-over screen, whose audio
\* requests are still pending
C17_Witness ==
    /\ Fresh(model) /\ steps = 0
    /\ model.sounds.play_game_over /\ model.sounds.play_select_sound
    /\ lastCall = NoCall

----------------------------------------------------------------------------
(* QuietSpec: the games of SimSpec in steps during which no enemy fires and
   no flyer appears *)

QuietKeys == {KEY_NONE, KEY_SPACE}

QuietInput ==
    /\ events < MaxEvents
    /\ \E key \in QuietKeys : Input(key, NoIo)
    /\ events' = events + 1

QuietUpdate ==
    /\ steps < MaxSteps
    /\ Update(QuietDraw)
    /\ UNCHANGED events

QuietNext == QuietInput \/ QuietUpdate

\* the player under barrier 1, two steps after shooting, while an enemy bullet
\* falls on the same barrier
UnderBarrier ==
    WithBullets([NewGame EXCEPT !.player.x = P(38),
                                !.player.shoot_timer = Ticks(1, 2) - 2 * DT],
                <<EnemyBullet(P(41), 4, 12), PlayerBullet(P(39) + PosUnit \div 2, 2)>>)

QuietInit ==
    /\ model \in Scenarios \cup {UnderBarrier}
    /\ files = <<>>
    /\ running = TRUE
    /\ accumulator = 0
    /\ frame = FrameStart
    /\ view = "ncurses"
    /\ steps = 0
    /\ events = 0
    /\ lastCall = NoCall
    /\ savedSnap = <<>>

QuietSpec == QuietInit /\ [][QuietNext]_vars

\* the snapshot as the bullet loop of the next quiet step finds it
AtBulletLoop(m) == MoveEnemies(BeforeLevelCheck(m, DT, QuietDraw), DT)

\* the snapshot as the loop's iteration for slot i finds it
AtBullet(m, i) ==
    LET m2 == AtBulletLoop(m) IN
    BulletLoop(m2, {j \in ActiveBullets(m2) : j < i}, DT)

Flag(p) == IF p THEN 1 ELSE 0

\* the iteration for slot i, started in snapshot m, affects one target at
\* most, chosen in the order barriers, flyer, enemies
OneTarget(m, i) ==
    LET b == MovedBullet(m.bullets[i], DT)
        after == BulletStep(m, i, DT)
        barriers == {s \in AllShields : m.shields[s].active /\ Overlaps(b, m.shields[s])}
        flyer == m.ufo.active /\ ~m.ufo.exploding /\ Overlaps(b, m.ufo)
        foes == {e \in 0 .. MAX_ENEMIES - 1 :
                    Live(m.enemies[e]) /\ Overlaps(b, m.enemies[e])}
        hitBarriers == {s \in AllShields : after.shields[s] # m.shields[s]}
        hitFlyer == after.ufo # m.ufo
        hitFoes == {e \in 0 .. MAX_ENEMIES - 1 : after.enemies[e] # m.enemies[e]}
        hitPlayer == \/ after.hit_timer # m.hit_timer
                     \/ after.state # m.state
                     \/ after.lives < m.lives
                     \/ after.player # m.player
    IN  /\ Cardinality(hitBarriers) + Flag(hitFlyer)
             + Cardinality(hitFoes) + Flag(hitPlayer) <= 1
        /\ barriers # {} =>
              /\ hitBarriers = {Min(barriers)}
              /\ after.shields[Min(barriers)].health
                    = m.shields[Min(barriers)].health - 1
              /\ ~after.bullets[i].active
              /\ after.score = m.score /\ after.lives = m.lives
        /\ (barriers = {} /\ b.type = ENTITY_BULLET_PLAYER /\ flyer) =>
              /\ hitFlyer /\ after.ufo.exploding
              /\ ~after.bullets[i].active
        /\ (barriers = {} /\ b.type = ENTITY_BULLET_PLAYER /\ ~flyer) =>
              /\ hitFoes = IF foes = {} THEN {} ELSE {Min(foes)}
              /\ \A e \in hitFoes : after.enemies[e].exploding
              /\ after.bullets[i].active = (foes = {} /\ ~OutOfBounds(b))

\* C18: in one simulation step each active bullet affects one target at most:
\* a bullet that overlaps an active barrier is consumed by the first such
\* barrier, whoever shot it, and touches neither flyer, enemies nor player;
\* otherwise a player bullet that overlaps the live flyer affects the flyer
\* only; otherwise a player bullet explodes the lowest-index live enemy it
\* overlaps and no other.
C18_OneTargetPerBullet ==
    (model.state = STATE_PLAYING /\ ~LevelCleared(BeforeLevelCheck(model, DT, QuietDraw)))
        => \A i \in ActiveBullets(AtBulletLoop(model)) :
              OneTarget(AtBullet(model, i), i)

\* C18 witness: barrier 1 has consumed a bullet of the player, shot from
\* under it, and a bullet of the enemy, and nothing else was touched
C18_Witness ==
    /\ model.state = STATE_PLAYING
    /\ \E i \in AllBullets :
          /\ model.bullets[i].type = ENTITY_BULLET_PLAYER
          /\ ~model.bullets[i].active
          /\ Overlaps(model.bullets[i], model.shields[1])
    /\ \E i \in AllBullets :
          /\ model.bullets[i].type = ENTITY_BULLET_ENEMY
          /\ ~model.bullets[i].active
          /\ Overlaps(model.bullets[i], model.shields[1])
    /\ model.shields[1].health = SHIELD_MAX_HEALTH - 2
    /\ model.score = 0 /\ model.lives = 3
    /\ \A e \in FormationSlots : Live(model.enemies[e])

----------------------------------------------------------------------------
(* HitSpec: the player, standing still under enemy fire, loses lives, loses
   the game and starts a new one *)

HitSteps == 40

HitKeys == {KEY_DOWN, KEY_ENTER}

\* a new game in which an enemy bullet is about to reach the player, who has
\* `lives` lives and `timer` ticks of invulnerability left
UnderFire(lives, timer) ==
    [WithBullets(NewGame, <<EnemyBullet(NewGame.player.x + P(2), 4, 25)>>)
     EXCEPT !.lives = lives, !.hit_timer = timer]

HitInit ==
    /\ model \in {UnderFire(3, 0), UnderFire(1, 3 * DT)}
    /\ files = <<>>
    /\ running = TRUE
    /\ accumulator = 0
    /\ frame = FrameStart
    /\ view = "ncurses"
    /\ steps = 0
    /\ events = 0
    /\ lastCall = NoCall
    /\ savedSnap = <<>>

\* rand() results: nothing happens, or the enemy of slot 50 or 51 (bottom row,
\* above the player) fires
HitDraws ==
    {QuietDraw} \cup {RandDraw(1, 0, 0, Picks(e, e)) : e \in {50, 51}}

EnemyBulletsInFlight(m) ==
    {i \in 0 .. MAX_BULLETS - 1 :
        m.bullets[i].active /\ m.bullets[i].type = ENTITY_BULLET_ENEMY}

\* the enemy fires again only when its last bullet is gone
HitUpdate ==
    /\ steps < HitSteps
    /\ \E r \in HitDraws :
          /\ r.fire = 0 => EnemyBulletsInFlight(model) = {}
          /\ Update(r)
    /\ UNCHANGED events

\* the keys are used on the game-over screen
HitInput ==
    /\ model.state = STATE_GAME_OVER
    /\ \E key \in HitKeys : Input(key, NoIo)
    /\ UNCHANGED events

HitNext == HitInput \/ HitUpdate

HitSpec == HitInit /\ [][HitNext]_vars

\* the step sets the invulnerability timer: the player is hit
PlayerHit == SimulationStep /\ model'.hit_timer > model.hit_timer

\* the step makes the flyer explode, which grants a life
FlyerHit == model'.ufo.exploding /\ ~model.ufo.exploding

\* the step consumes an enemy bullet that overlaps the player
BulletMetPlayer ==
    \E i \in EnemyBulletsInFlight(model) :
        /\ ~model'.bullets[i].active
        /\ check_collision([model'.bullets[i] EXCEPT !.active = TRUE], model'.player)

----------------------------------------------------------------------------
(* ShootSpec: a new game in which the player keeps the shoot key down at will *)

ShootSteps == TARGET_FPS + 5

\* here an event is a command that changed the bullet pool
ShootInput ==
    /\ Input(KEY_SPACE, NoIo)
    /\ events' = events + Flag(model'.bullets # model.bullets)

ShootUpdate ==
    /\ steps < ShootSteps
    /\ Update(QuietDraw)
    /\ UNCHANGED events

ShootInit ==
    /\ model = NewGame
    /\ files = <<>>
    /\ running = TRUE
    /\ accumulator = 0
    /\ frame = FrameStart
    /\ view \in Views
    /\ steps = 0
    /\ events = 0
    /\ lastCall = NoCall
    /\ savedSnap = <<>>

ShootNext == ShootInput \/ ShootUpdate

ShootSpec == ShootInit /\ [][ShootNext]_vars

PlayerBulletsInFlight(m) ==
    {i \in 0 .. MAX_BULLETS - 1 :
        m.bullets[i].active /\ m.bullets[i].type = ENTITY_BULLET_PLAYER}

\* the bullet a Shoot command spawns from snapshot m
ShotFrom(m) ==
    [ZeroEntity EXCEPT
        !.active = TRUE, !.type = ENTITY_BULLET_PLAYER,
        !.x = m.player.x + P(3) \div 2, !.y = m.player.y - P(1),
        !.dy = -BULLET_SPEED, !.width = BULLET_WIDTH, !.height = BULLET_HEIGHT]

\* C20: in Playing a Shoot command spawns a player bullet only if the shoot
\* cooldown is <= 0, and then sets the cooldown to 0.5 s and raises the shoot
\* audio flag; a Shoot command received while the cooldown is > 0 changes
\* neither the bullet pool nor the cooldown; no other transition adds a player
\* bullet; consequently the n-th bullet is spawned no earlier than simulation
\* step 30 * (n - 1): two player bullets are never spawned fewer than 30
\* steps apart.
C20_ShootHonoursCooldown ==
    /\ [][(model.state = STATE_PLAYING /\ Input(KEY_SPACE, NoIo)) =>
            IF model.player.shoot_timer <= 0
            THEN /\ \E i \in AllBullets :
                       /\ ~model.bullets[i].active
                       /\ model'.bullets = [model.bullets EXCEPT ![i] = ShotFrom(model)]
                 /\ model'.player.shoot_timer = TARGET_FPS \div 2
                 /\ model'.sounds.play_shoot
            ELSE /\ model'.bullets = model.bullets
                 /\ model'.player.shoot_timer = model.player.shoot_timer]_vars
    /\ [][PlayerBulletsInFlight(model') \ PlayerBulletsInFlight(model) # {} =>
            /\ model.player.shoot_timer <= 0
            /\ steps' = steps
            /\ model'.player.shoot_timer = TARGET_FPS \div 2]_vars
    /\ [](events >= 1 =>
            steps + model.player.shoot_timer >= (TARGET_FPS \div 2) * events)

\* C20 witness: the second bullet, spawned exactly 30 steps after the first
C20_Witness ==
    /\ events = 2 /\ steps = TARGET_FPS \div 2
    /\ model.player.shoot_timer = TARGET_FPS \div 2
    /\ PlayerBulletsInFlight(model) # {}
    /\ model.sounds.play_shoot

----------------------------------------------------------------------------
(* MarchSpec: the formation marches from boundary to boundary for 25 seconds
   while nobody fires *)

MarchSteps == 25 * TARGET_FPS

\* the last enemy (slot 54) three steps after its bounce at the right
\* boundary, a player bullet under it
LastEnemyDropped ==
    LET m == [WithLive(NewGame, {54}) EXCEPT
                 !.direction_enemies = -1,
                 !.drop_step_count = 1,
                 !.enemies[54].y = @ + P(ENEMY_DROP_HEIGHT),
                 !.enemies[54].x = P(GAME_WIDTH - ENEMY_WIDTH - 2)
                                      - 3 * Move(ENEMY_SPEED_BASE, DT)]
    IN  WithBullets(m, <<PlayerBullet(m.enemies[54].x + P(1), 10)>>)

MarchInit ==
    /\ model \in {NewGame, WithLive(NewGame, {43, 54}), LastEnemyDropped}
    /\ files = <<>>
    /\ running = TRUE
    /\ accumulator = 0
    /\ frame = FrameStart
    /\ view = "ncurses"
    /\ steps = 0
    /\ events = 0
    /\ lastCall = NoCall
    /\ savedSnap = <<>>

MarchUpdate ==
    /\ steps < MarchSteps
    /\ Update(QuietDraw)
    /\ UNCHANGED events

MarchSpec == MarchInit /\ [][MarchUpdate]_vars

\* the y init_enemies gives the enemy of slot i
RowY(i) == P(7 + (i \div FORMATION_COLS) * (ENEMY_HEIGHT + 2))

\* the vertical move of the live enemies in this step is d units
Shifted(d) ==
    \A i \in LiveSlots :
        Live(model'.enemies[i]) => model'.enemies[i].y = model.enemies[i].y + P(d)

\* C21: the drop oscillator alternates three drops and three rises: within a
\* level a boundary touch moves the live enemies by +2 while the oscillator
\* drops, taking the counter 0 -> 1 -> 2 -> 3, and by -2 while it rises,
\* taking it 3 -> 2 -> 1 -> 0; a step without a touch leaves counter,
\* direction and heights alone; the counter stays in [0,3]; every live
\* enemy's y is its formation-row y plus 2 * counter, hence at most 6 units
\* below its row.
C21_DropOscillator ==
    /\ [](/\ model.drop_step_count \in 0 .. 3
          /\ model.drop_direction \in {1, -1}
          /\ model.drop_direction = 1 => model.drop_step_count <= 2
          /\ model.drop_direction = -1 => model.drop_step_count >= 1
          /\ \A i \in LiveSlots :
                /\ model.enemies[i].y = RowY(i) + P(2) * model.drop_step_count
                /\ model.enemies[i].y <= RowY(i) + P(6))
    /\ [][(SimulationStep /\ model'.level = model.level) =>
            IF model'.direction_enemies # model.direction_enemies
            THEN IF model.drop_direction = 1
                 THEN /\ model'.drop_step_count = model.drop_step_count + 1
                      /\ Shifted(2)
                      /\ model'.drop_direction = 1 <=> model.drop_step_count < 2
                 ELSE /\ model'.drop_step_count = model.drop_step_count - 1
                      /\ Shifted(-2)
                      /\ model'.drop_direction = -1 <=> model.drop_step_count > 1
            ELSE /\ model'.drop_step_count = model.drop_step_count
                 /\ model'.drop_direction = model.drop_direction
                 /\ Shifted(0)]_vars

\* C21 witness: the fifth boundary touch of the level: the formation, having
\* dropped three times, has risen twice
C21_Witness ==
    /\ model.state = STATE_PLAYING /\ model.level = 1
    /\ model.drop_step_count = 1 /\ model.drop_direction = -1
    /\ model.direction_enemies = -1
    /\ model.enemies[54].y = RowY(54) + P(2)
    /\ ActiveEnemies(model) = FORMATION_ROWS * FORMATION_COLS

----------------------------------------------------------------------------
(* the level transition, the save prompt and the menus: claims C22 to C30 *)

\* slots 0..54 of m hold the formation exactly as init_enemies builds it
OnTheRows(m) ==
    \A i \in FormationSlots :
        m.enemies[i] = FormationEnemy(i \div FORMATION_COLS, i % FORMATION_COLS)

\* C22: the simulation step that raises the level skips the rest of the step:
\* the new formation stands where init_enemies put it and has not fired, no
\* bullet is moved, animated or deactivated (the bullets in flight stay in
\* flight), and score, lives and barriers are as before the step.
C22_LevelUpSkipsTheRest ==
    [][(SimulationStep /\ model'.level # model.level) =>
        /\ OnTheRows(model')
        /\ model'.direction_enemies = 1 /\ model'.drop_step_count = 0
        /\ model'.bullets = model.bullets
        /\ model'.score = model.score
        /\ model'.lives = model.lives
        /\ model'.shields = model.shields
        /\ model'.state = STATE_PLAYING]_vars

\* C22 witness: the level has just been raised, the new formation has not
\* moved yet, and a bullet of the previous level is in flight
C22_Witness ==
    /\ model.level = 2 /\ model.state = STATE_PLAYING
    /\ OnTheRows(model)
    /\ \E i \in AllBullets :
          model.bullets[i].active /\ ~OutOfBounds(model.bullets[i])

\* the files of the directory whose content this transition replaces
Replaced == {n \in DOMAIN files \cap DOMAIN files' : files'[n] # files[n]}

\* the environments in which a command may run
Environments == {e \in IoEnvs(files) : ValidIo(e)}

C24_LoadMenuCursor ==
    [][\A key \in {KEY_UP, KEY_DOWN} :
        (model.state = STATE_LOAD_MENU /\ Input(key, NoIo)) =>
            LET n == model.save_file_count
                d == IF key = KEY_UP THEN -1 ELSE 1
            IN  IF n > 0
                THEN /\ model'.menu_selection \in 0 .. n - 1
                     /\ model'.menu_selection = (model.menu_selection + d + n) % n
                ELSE model'.menu_selection = model.menu_selection]_vars

\* C24, the empty list: the load menu was opened on an empty directory with
\* the cursor left on 2, and Down, Up have taken it to -1
C24_CursorBelowZero ==
    /\ model.state = STATE_LOAD_MENU
    /\ model.save_file_count = 0
    /\ model.menu_selection = -1

\* the game world of snapshot m
World(m) ==
    [player |-> m.player, enemies |-> m.enemies, bullets |-> m.bullets,
     ufo |-> m.ufo, shields |-> m.shields,
     score |-> m.score, lives |-> m.lives, level |-> m.level,
     enemy_speed_mult |-> m.enemy_speed_mult,
     direction_enemies |-> m.direction_enemies,
     drop_direction |-> m.drop_direction, drop_step_count |-> m.drop_step_count,
     animation_frame |-> m.animation_frame, animation_timer |-> m.animation_timer,
     game_over_timer |-> m.game_over_timer, hit_timer |-> m.hit_timer,
     save_success_timer |-> m.save_success_timer]

\* snapshot m after Pause, n simulation steps and Pause again
RECURSIVE Waited(_, _)
Waited(m, n) ==
    IF n = 0 THEN m ELSE Waited(model_update(m, DT, LoudDraw).model, n - 1)

PauseAndResume(m, n) ==
    LET paused == DriverInput(m, CMD_PAUSE, files, NoIo).model IN
    DriverInput(Waited(paused, n), CMD_PAUSE, files, NoIo).model

\* C25: Pause in Playing goes to Paused with cursor 0, Pause in Paused goes
\* back to Playing; while the game stays paused no transition changes the
\* game world, and neither does the Pause that resumes it: a Pause/Pause round
\* trip, with simulation steps in between, returns the game world as it was.
C25_PauseKeepsTheWorld ==
    /\ [][(model.state = STATE_PLAYING /\ Input(KEY_ESCAPE, NoIo)) =>
            /\ model'.state = STATE_PAUSED /\ model'.menu_selection = 0
            /\ World(model') = World(model)]_vars
    /\ [][(model.state = STATE_PAUSED /\ Input(KEY_ESCAPE, NoIo)) =>
            model'.state = STATE_PLAYING]_vars
    /\ [][(model.state = STATE_PAUSED /\ model'.state \in {STATE_PAUSED, STATE_PLAYING})
            => World(model') = World(model)]_vars
    /\ [](model.state = STATE_PLAYING =>
            \A n \in 0 .. 2 :
                PauseAndResume(model, n) = [model EXCEPT !.menu_selection = 0])
    /\ [](model.state = STATE_PAUSED =>
            model_update(model, DT, LoudDraw).model = model)

\* C25 witness: the game paused right after the loss of a life has been
\* resumed by Pause, steps of the paused game in between: the invulnerability
\* is what it was
C25_Witness ==
    /\ model.state = STATE_PLAYING /\ events = 1
    /\ World(model) = World(PausedGame)
    /\ model.hit_timer = Ticks(2, 1)
    /\ model.menu_selection = 0

----------------------------------------------------------------------------
(* ExitSpec: the menus of Spec, a lost game and a save about to be
   acknowledged: claim C26 *)

\* the game over screen: the last life was lost in the step before
LostGame == UpdatePlaying(PlayerTarget(1), DT, QuietDraw)

\* the paused game saved as q.dat, the acknowledgement two steps from its end
SavedLate ==
    LET slot == InputPaused([PausedGame EXCEPT !.menu_selection = 2],
                            CMD_RETURN, <<>>, GoodIo).model
        prompt == InputSaveSelect(slot, CMD_RETURN, <<>>, GoodIo).model
        saved == InputSaveInput([prompt EXCEPT !.input_buffer = <<"q">>],
                                CMD_RETURN, <<>>, GoodIo).model
    IN  [saved EXCEPT !.save_success_timer = 2 * DT]

ExitInit ==
    /\ model \in {model_init, PausedGame, LostGame, SavedLate}
    /\ files \in (IF model = model_init THEN {<<>>, OldDisk}
                 ELSE IF model = SavedLate THEN {OldDisk} ELSE {<<>>})
    /\ running = TRUE
    /\ accumulator = 0
    /\ frame = FrameStart
    /\ view \in Views
    /\ steps = 0
    /\ events = 0
    /\ lastCall = NoCall
    /\ savedSnap = Written(files)

ExitSpec == ExitInit /\ [][Next]_vars

\* the flow-states in which the process can end
TerminalStates ==
    {STATE_SAVE_SUCCESS, STATE_CONFIRM_QUIT, STATE_GAME_OVER, STATE_MENU}

\* the command of this transition is Exit
ExitKey ==
    \E key \in Keys :
        get_input(model, view, key).cmd = CMD_EXIT /\ Input(key, NoIo)

\* C26: the process ends only by the expiry of the save acknowledgement, by
\* Confirm on item 0 of the quit confirmation, by Exit in the quit
\* confirmation, by Confirm on the quit item of the game over screen (item 2)
\* or of the main menu (item 4); it never ends in another flow-state, and the
\* pending-quit flag is never set, so the loop never ends through it.
C26_TerminalPathsOnly ==
    /\ [][(running /\ ~running') =>
            \/ /\ model.state = STATE_SAVE_SUCCESS
               /\ Step /\ model.save_success_timer <= DT
            \/ model.state = STATE_CONFIRM_QUIT /\ Confirm /\ model.menu_selection = 0
            \/ model.state = STATE_CONFIRM_QUIT /\ ExitKey
            \/ model.state = STATE_GAME_OVER /\ Confirm /\ model.menu_selection = 2
            \/ model.state = STATE_MENU /\ Confirm /\ model.menu_selection = 4]_vars
    /\ [](~running => model.state \in TerminalStates)
    /\ [](~model.pending_quit)

\* C26 witness: the process has ended from the game over screen, by its quit
\* item
C26_Witness ==
    /\ ~running /\ model.state = STATE_GAME_OVER /\ model.menu_selection = 2
    /\ model.lives = 0

----------------------------------------------------------------------------
(* VolumeSpec: the player walks through the menus and turns the volume:
   claim C27 *)

\* keys in one behaviour of VolumeSpec
VolKeys == 11

VolumeKeys == {KEY_UP, KEY_DOWN, KEY_LEFT, KEY_RIGHT, KEY_ENTER, KEY_SPACE, KEY_ESCAPE}

\* in the menu and in the pause menu every key; in a game Pause only;
\* elsewhere Confirm and Pause
VolumeInput ==
    \E key \in VolumeKeys :
        /\ events < VolKeys
        /\ \/ model.state \in {STATE_MENU, STATE_PAUSED}
           \/ model.state = STATE_PLAYING /\ key = KEY_ESCAPE
           \/ model.state \notin {STATE_MENU, STATE_PAUSED, STATE_PLAYING}
              /\ key \in {KEY_ENTER, KEY_ESCAPE}
        /\ Input(key, NoIo)
        /\ events' = events + 1

VolumeInit ==
    /\ model \in {model_init, PausedGame}
    /\ files = <<>>
    /\ running = TRUE
    /\ accumulator = 0
    /\ frame = FrameStart
    /\ view \in Views
    /\ steps = 0
    /\ events = 0
    /\ lastCall = NoCall
    /\ savedSnap = Written(files)

VolumeSpec == VolumeInit /\ [][VolumeInput]_vars

\* the cursor is on the volume item
OnVolumeItem(m) ==
    \/ m.state = STATE_MENU /\ m.menu_selection = 3
    \/ m.state = STATE_PAUSED /\ m.menu_selection = 1

----------------------------------------------------------------------------
(* FrameSpec: the loop body of main, section by section, with its clock:
   claim C28 *)

\* The accumulator is a double. Time is counted in units of one ulp of dt,
\* and a sum or difference is rounded to the nearest value of the format,
\* ties to even. 1/60 is 2^-6 * 1.000100010001...: its pattern repeats every
\* four bits, so with a fraction of FractionBits = 12 bits it rounds exactly as
\* with the 52 of a double: dt is 1/15 ulp short of 1/60 and 0.25 - 15 * dt is
\* one ulp of dt.
FractionBits == 3 * 4

\* one ulp of the values from 2^-6 to 2^-5, in seconds: 2^-UlpExp
UlpExp == FractionBits + 6

\* x rounded to FractionBits + 1 significant bits, ties to even
RoundDouble(x) ==
    IF x < 2 ^ (FractionBits + 1)
    THEN x
    ELSE LET e == CHOOSE k \in 1 .. 8 :
                    2 ^ (k + FractionBits) <= x /\ x < 2 ^ (k + FractionBits + 1)
             q == 2 ^ e
             r == x % q
             lo == x - r
         IN  IF r > q \div 2 \/ (r = q \div 2 /\ (lo \div q) % 2 = 1)
             THEN lo + q
             ELSE lo

\* const double dt = 1.0 / TARGET_FPS
FrameDt ==
    LET one == 2 ^ UlpExp
        q == one \div TARGET_FPS
    IN  RoundDouble(IF 2 * (one % TARGET_FPS) > TARGET_FPS THEN q + 1 ELSE q)

\* 0.25
FrameCap == 2 ^ (UlpExp - 2)

\* a variant of CappedFrameTime without the guard
UncappedFrameTime(frame_time) == frame_time

\* if (frame_time > 0.25) frame_time = 0.25
CappedFrameTime(frame_time) ==
    IF frame_time > FrameCap THEN FrameCap ELSE frame_time

\* frames in one behaviour
MaxFrames == 3

\* what a frame may have lasted: nothing, a sixteenth of dt, dt less one ulp,
\* dt, twice dt, 0.25 s, and more than 0.25 s
FrameTimes ==
    {0, 2 ^ (FractionBits - 4) + 17, FrameDt - 1, FrameDt, 2 * FrameDt,
     FrameCap, FrameCap + 2 ^ (FractionBits + 1)}

\* sections A and B of the loop body: the clock is read, the capped frame
\* time is added to the accumulator, the command of the frame is handled
\* (no key is down)
FrameTime ==
    \E frame_time \in FrameTimes :
        /\ running /\ frame.pc = "time" /\ events < MaxFrames
        /\ accumulator' = RoundDouble(accumulator + CappedFrameTime(frame_time))
        /\ LET got == get_input(model, view, KEY_NONE)
               out == DriverInput(got.model, got.cmd, files, NoIo)
           IN  /\ model' = out.model
               /\ files' = out.files
               /\ running' = ~out.exit
               /\ lastCall' = out.call
               /\ savedSnap' = Remember(savedSnap, out.call)
        /\ frame' = [pc |-> "update", updates |-> 0]
        /\ events' = events + 1
        /\ UNCHANGED <<view, steps>>

\* section C, one turn of its loop: while (accumulator >= dt)
FrameUpdate ==
    /\ running /\ frame.pc = "update" /\ accumulator >= FrameDt
    /\ LET out == model_update(model, DT, QuietDraw)
       IN  /\ model' = out.model
           /\ running' = ~out.exit
    /\ accumulator' = RoundDouble(accumulator - FrameDt)
    /\ frame' = [frame EXCEPT !.updates = @ + 1]
    /\ steps' = IF model.state \in ClockStates THEN steps + 1 ELSE steps
    /\ lastCall' = UpdateCall(model, DT, QuietDraw)
    /\ UNCHANGED <<files, view, events, savedSnap>>

\* sections D and E and the test that closes the frame
FrameRender ==
    /\ running /\ frame.pc = "update" /\ accumulator < FrameDt
    /\ frame' = [frame EXCEPT !.pc = "time"]
    /\ running' = ~LoopEnds(model)
    /\ UNCHANGED <<model, files, view, steps, events, lastCall, savedSnap, accumulator>>

FrameInit ==
    /\ model = NewGame
    /\ files = <<>>
    /\ running = TRUE
    /\ accumulator = 0
    /\ frame = FrameStart
    /\ view \in Views
    /\ steps = 0
    /\ events = 0
    /\ lastCall = NoCall
    /\ savedSnap = <<>>

FrameNext == FrameTime \/ FrameUpdate \/ FrameRender

FrameSpec == FrameInit /\ [][FrameNext]_vars

\* the steps that 0.25 s hold
CatchUp == TARGET_FPS \div 4

\* C28: a frame adds its time, 0.25 s at most, to the accumulator; then the
\* simulation step runs exactly while the accumulator holds dt or more, dt
\* being subtracted each time; so between frames the accumulator is at least
\* 0 and less than dt, and no frame runs more than 16 steps: the 15 that
\* 0.25 s hold and the one the accumulator held nearly in full.
C28_FixedTimestep ==
    /\ [][frame.pc = "time" /\ frame'.pc = "update" =>
            /\ accumulator' >= accumulator
            /\ accumulator' <= RoundDouble(accumulator + FrameCap)
            /\ frame'.updates = 0]_vars
    /\ [][frame.pc = "update" /\ frame'.pc = "update" =>
            /\ accumulator >= FrameDt
            /\ accumulator' = RoundDouble(accumulator - FrameDt)
            /\ frame'.updates = frame.updates + 1
            /\ steps' = steps + 1]_vars
    /\ [][frame.pc = "update" /\ frame'.pc = "time" =>
            accumulator < FrameDt /\ accumulator' = accumulator]_vars
    /\ [](frame.pc = "time" => 0 <= accumulator /\ accumulator < FrameDt)
    /\ [](frame.updates <= CatchUp + 1)

\* C28 as the specification states it: no frame runs more than 15 steps
C28_FifteenSteps == frame.updates <= CatchUp

\* C28 witness: a frame of more than 0.25 s found the accumulator one ulp
\* short of dt and has run 16 steps
C28_Witness ==
    /\ frame.pc = "time" /\ frame.updates = CatchUp + 1
    /\ accumulator < FrameDt /\ steps >= CatchUp + 1

----------------------------------------------------------------------------
(* ScanSpec: the load menu opened over directories that also hold files the
   program did not write: claim C29 *)

\* keys in one behaviour of ScanSpec
MaxScanKeys == 4

ScanKeys == {KEY_UP, KEY_DOWN, KEY_ENTER, KEY_ESCAPE}

\* q.dat; q.dat.b, a copy somebody kept; .q.dat, hidden; q, no suffix
SaveName == <<"q">> \o DAT
CopyName == SaveName \o <<".", "b">>
HiddenName == <<".">> \o SaveName
PlainName == <<"q">>

\* eleven saves 0.dat .. 9.dat and a.dat
ManyNames ==
    [i \in 1 .. MAX_SAVE_FILES + 1 |->
        <<(<<"0", "1", "2", "3", "4", "5", "6", "7", "8", "9", "a">>)[i]>> \o DAT]

Range(seq) == {seq[i] : i \in 1 .. Len(seq)}

\* the directories: any of the four names, or the eleven saves and the copy;
\* none of the files holds a complete snapshot
ScanDirs ==
    {[n \in S |-> FileContent(0, NoImage)] :
        S \in SUBSET {SaveName, CopyName, HiddenName, PlainName}
              \cup {Range(ManyNames) \cup {CopyName}}}

\* what readdir may report: the few files in any order, the many in two
ScanListings(fs) ==
    IF Cardinality(DOMAIN fs) <= 4
    THEN Listings(fs)
    ELSE {<<<<".">>, <<".", ".">>>> \o ManyNames \o <<CopyName>>,
          <<<<".">>, <<".", ".">>, CopyName>> \o ManyNames}

ScanEnvs(fs) ==
    {IoEnv(FALSE, 0, TRUE, l) : l \in ScanListings(fs)}
        \cup {IoEnv(FALSE, 0, FALSE, <<>>)}

ScanInput ==
    \E key \in ScanKeys :
        /\ events < MaxScanKeys
        /\ \E io \in ScanEnvs(files) : Input(key, io)
        /\ events' = events + 1

ScanInit ==
    /\ model = model_init
    /\ files \in ScanDirs
    /\ running = TRUE
    /\ accumulator = 0
    /\ frame = FrameStart
    /\ view = "sdl"
    /\ steps = 0
    /\ events = 0
    /\ lastCall = NoCall
    /\ savedSnap = <<>>

ScanSpec == ScanInit /\ [][ScanInput]_vars

\* str ends with pat
EndsWith(str, pat) ==
    /\ Len(str) >= Len(pat)
    /\ SubSeq(str, Len(str) - Len(pat) + 1, Len(str)) = pat

\* the entries of listing that end with ".dat" and do not start with '.'
SaveEntries(listing) ==
    SelectSeq(listing, LAMBDA n : EndsWith(n, DAT) /\ n[1] # ".")

FirstTen(seq) ==
    IF Len(seq) > MAX_SAVE_FILES THEN SubSeq(seq, 1, MAX_SAVE_FILES) ELSE seq

\* the names snapshot m lists
Recorded(m) == [i \in 1 .. m.save_file_count |-> m.save_files[i - 1]]

\* Confirm on the load item of the menu, met by environment io
ScansWith(io) ==
    /\ model.state = STATE_MENU /\ model.menu_selection = 2
    /\ Input(KEY_ENTER, io)

\* C29: a scan records the entries that end with ".dat" and do not start
\* with '.', in the order reported, the first ten at most; a missing
\* directory gives a count of 0
C29_ScanKeepsSaveEntries ==
    [][\A io \in ScanEnvs(files) :
        ScansWith(io) =>
            IF io.dir_ok
            THEN Recorded(model') = FirstTen(SaveEntries(io.listing))
            ELSE model'.save_file_count = 0]_vars

\* C29 witness: q.dat.b is listed in the load menu
C29_CopyListed ==
    /\ model.state = STATE_LOAD_MENU
    /\ \E i \in 0 .. model.save_file_count - 1 : model.save_files[i] = CopyName

----------------------------------------------------------------------------
(* a lost game left through the save menu: claim C30 *)

\* C30: while the game is in STATE_PLAYING the player has at least one life
C30_PlayingHasLives ==
    model.state = STATE_PLAYING => model.lives >= 1

\* C30 witness: the lost game is being played again, no life left, its
\* game over sound still requested
C30_PlayingWithoutLives ==
    /\ running /\ model.state = STATE_PLAYING
    /\ model.lives = 0
    /\ model.sounds.play_game_over
    /\ World(model) = World(LostGame)

----------------------------------------------------------------------------
(* LastLifeSpec: the last life is lost while a bullet of the player is
   about to score: claim C31 *)

\* one life left; slot 0 holds a bullet shot by the top row, one step from
\* the player, slot 1 a bullet of the player one step from the flyer
LastStandFlyer ==
    [WithBullets(WithLive(NewGame, {43, 54}),
                 <<EnemyBullet(NewGame.player.x + P(2), 0, 58), PlayerBullet(P(49), 39)>>)
     EXCEPT !.lives = 1,
            !.ufo = spawn_ufo(NewGame, 0).ufo, !.ufo.x = P(47),
            !.sounds.ufo_loopING = TRUE]

\* the same with slot 1 one step from the enemy of slot 54
LastStandEnemy ==
    [WithBullets(WithLive(NewGame, {43, 54}),
                 <<EnemyBullet(NewGame.player.x + P(2), 4, 25),
                   PlayerBullet(P(66) + PosUnit \div 2, 15)>>)
     EXCEPT !.lives = 1]

LastLifeInit ==
    /\ model \in {LastStandFlyer, LastStandEnemy, PlayerTarget(1)}
    /\ files = <<>>
    /\ running = TRUE
    /\ accumulator = 0
    /\ frame = FrameStart
    /\ view = "ncurses"
    /\ steps = 0
    /\ events = 0
    /\ lastCall = NoCall
    /\ savedSnap = <<>>

LastLifeSpec == LastLifeInit /\ [][HitNext]_vars

\* the snapshot in which the bullet loop of the step with rand() results r
\* starts
LoopStart(m, r) == EnemyFire(MoveEnemies(BeforeLevelCheck(m, DT, r), DT), r)

\* the snapshot before and after the loop's iteration for slot i
BeforeSlot(m, r, i) ==
    LET m2 == LoopStart(m, r) IN
    BulletLoop(m2, {j \in ActiveBullets(m2) : j < i}, DT)

AfterSlot(m, r, i) == BulletStep(BeforeSlot(m, r, i), i, DT)

\* the slots whose bullet takes the last life in that step
FatalSlots(m, r) ==
    {i \in ActiveBullets(LoopStart(m, r)) :
        /\ BeforeSlot(m, r, i).state = STATE_PLAYING
        /\ AfterSlot(m, r, i).state = STATE_GAME_OVER}

\* C31: in STATE_GAME_OVER no life is left; in the step that ends the game
\* the bullets handled after the fatal one change neither lives nor score.
C31_GameOverWithoutLives ==
    /\ [](model.state = STATE_GAME_OVER => model.lives <= 0)
    /\ [][\A r \in HitDraws :
            (model.state = STATE_PLAYING /\ Update(r)) =>
                \A i \in FatalSlots(model, r) :
                    /\ model'.lives = AfterSlot(model, r, i).lives
                    /\ model'.score = AfterSlot(model, r, i).score]_vars

\* C31 witness: the game is over and the flyer, hit in the same step by the
\* bullet of slot 1, has given a life
C31_GameOverWithALife ==
    /\ model.state = STATE_GAME_OVER /\ model.lives = 1
    /\ model.ufo.exploding /\ model.score = LastStandFlyer.score + 100
    /\ steps = 1

----------------------------------------------------------------------------
(* the cursor, the name buffer and the list of saves: claims C32 to C34 *)

\* the items of the screen of snapshot m; a screen without a menu, and the
\* load menu that lists nothing, accept any cursor
Items(m) ==
    IF m.state = STATE_MENU THEN 0 .. 4
    ELSE IF m.state = STATE_PAUSED THEN 0 .. 3
    ELSE IF m.state \in {STATE_GAME_OVER, STATE_CONFIRM_QUIT} THEN 0 .. 2
    ELSE IF m.state = STATE_OVERWRITE_CONFIRM THEN 0 .. 1
    ELSE IF m.state = STATE_SAVE_SELECT THEN 0 .. m.save_file_count
    ELSE IF m.state = STATE_LOAD_MENU /\ m.save_file_count > 0
    THEN 0 .. m.save_file_count - 1
    ELSE {m.menu_selection}

\* C32: the cursor is on an item of the screen shown: 0..4 in the menu, 0..3
\* in the pause menu, 0..2 on the game over screen and in the quit
\* confirmation, 0..1 in the overwrite confirmation, 0..save_file_count in the
\* save slot menu and 0..save_file_count-1 in a load menu that lists files.
C32_CursorOnAnItem == model.menu_selection \in Items(model)

\* C32 witness: the quit confirmation was declined on the game over screen,
\* whose cursor is now 3
C32_CursorPastGameOver ==
    /\ model.state = STATE_GAME_OVER /\ model.menu_selection = 3
    /\ model.previous_state = STATE_GAME_OVER

\* a name of 29 characters, which both prompts of the SDL view accept
LongBase == [i \in 1 .. MAX_FILENAME_LEN - 3 |-> "q"]

\* the directory of an earlier run that saved under LongBase
FirstSave == (LongBase \o DAT) :> FileContent(1, SavedAs(PausedGame, LongBase))

\* the directory after a later run that opened the save slot menu, chose the
\* listed file and answered the overwrite confirmation with "keep both"
KeptBoth ==
    LET io == IoEnv(TRUE, 1, TRUE, <<LongBase \o DAT>>)
        slot == InputPaused([PausedGame EXCEPT !.menu_selection = 2],
                            CMD_RETURN, FirstSave, io).model
        chosen == InputSaveSelect([slot EXCEPT !.menu_selection = 1],
                                  CMD_RETURN, FirstSave, io).model
    IN  InputOverwriteConfirm([chosen EXCEPT !.menu_selection = 1],
                              CMD_RETURN, FirstSave, io).files

\* the next run, in its menu or paused, over the directory the earlier runs
\* left
NameInit ==
    /\ model \in {model_init, PausedGame}
    /\ files \in {FirstSave, KeptBoth}
    /\ running = TRUE
    /\ accumulator = 0
    /\ frame = FrameStart
    /\ view \in Views
    /\ steps = 0
    /\ events = 0
    /\ lastCall = NoCall
    /\ savedSnap = Written(files)

NameSpec == NameInit /\ [][Next]_vars

\* C33: the name buffer holds at most MAX_FILENAME_LEN - 1 = 31 characters
\* before its terminator, whatever saves, "keep both" copies, rescans and
\* Confirms on listed files came before.
C33_NameFitsBuffer == Len(model.input_buffer) <= MAX_FILENAME_LEN - 1

\* C33 witness: Confirm on the listed "keep both" copy wrote its base name of
\* 32 characters, and a terminator, into the buffer of 32 bytes
C33_CopyNameInBuffer ==
    /\ model.state = STATE_OVERWRITE_CONFIRM
    /\ model.input_buffer = LongBase \o <<"(", "1", ")">>
    /\ Len(model.input_buffer) = MAX_FILENAME_LEN
    /\ PathName(model.input_buffer \o DAT) \in DOMAIN files

\* the menu with the cursor on its load item; the pause menu with the cursor
\* on its save item
LoadItem == [model_init EXCEPT !.menu_selection = 2]
SlotItem == [PausedGame EXCEPT !.menu_selection = 2]

\* either menu over the directories of ScanSpec
ListInit ==
    /\ model \in {LoadItem, SlotItem}
    /\ files \in ScanDirs
    /\ running = TRUE
    /\ accumulator = 0
    /\ frame = FrameStart
    /\ view = "sdl"
    /\ steps = 0
    /\ events = 0
    /\ lastCall = NoCall
    /\ savedSnap = <<>>

ListSpec == ListInit /\ [][ScanInput]_vars

\* the indices of the names the last scan recorded
Listed(m) == 0 .. m.save_file_count - 1

\* C34: save_file_count stays within 0..MAX_SAVE_FILES; the load menu calls
\* model_load_named only when the list is not empty, with the name at the
\* cursor, which is an index of the list; Confirm on a file of the save slot
\* menu reads the name at cursor - 1, which is an index of the list.
C34_ListAccessInRange ==
    /\ [](model.save_file_count \in 0 .. MAX_SAVE_FILES)
    /\ [][lastCall'.fn = "model_load_named" =>
            /\ model.state = STATE_LOAD_MENU
            /\ model.save_file_count > 0
            /\ model.menu_selection \in Listed(model)
            /\ lastCall'.filename = model.save_files[model.menu_selection]]_vars
    /\ [][(model.state = STATE_SAVE_SELECT
           /\ model'.state = STATE_OVERWRITE_CONFIRM) =>
            /\ model.menu_selection - 1 \in Listed(model)
            /\ model'.input_buffer =
                  LET f == model.save_files[model.menu_selection - 1]
                  IN  SubSeq(f, 1, Len(f) - 4)]_vars

\* C34 witness: of eleven saves ten are listed, and Confirm on the last item
\* of the save slot menu read the tenth name
C34_LastListedChosen ==
    /\ model.state = STATE_OVERWRITE_CONFIRM
    /\ model.save_file_count = MAX_SAVE_FILES
    /\ Cardinality(DOMAIN files) > MAX_SAVE_FILES
    /\ model.input_buffer \o DAT = model.save_files[MAX_SAVE_FILES - 1]

----------------------------------------------------------------------------
(* LevelSpec: the end of a level and the beginning of the next *)

LevelSteps == 56

\* the last enemy (slot 54) and the flyer above it; the player, below both,
\* fired at the flyer and, once the cooldown was over, at the enemy
LastTargets ==
    [WithBullets(WithLive(NewGame, {54}),
                 <<PlayerBullet(P(66) + PosUnit \div 2, 39),
                   PlayerBullet(P(66) + PosUnit \div 2, 9)>>)
     EXCEPT !.ufo = spawn_ufo(NewGame, 0).ufo, !.ufo.x = P(65),
            !.player.x = P(65), !.sounds.ufo_loopING = TRUE]

LevelInit ==
    /\ model \in {LastEnemy, LastTargets}
    /\ files = <<>>
    /\ running = TRUE
    /\ accumulator = 0
    /\ frame = FrameStart
    /\ view = "ncurses"
    /\ steps = 0
    /\ events = 0
    /\ lastCall = NoCall
    /\ savedSnap = <<>>

LevelUpdate ==
    /\ steps < LevelSteps
    /\ Update(QuietDraw)
    /\ UNCHANGED events

\* the player fires when the cooldown allows it
LevelShoot ==
    /\ model.state = STATE_PLAYING
    /\ model.player.shoot_timer <= 0
    /\ Input(KEY_SPACE, NoIo)
    /\ UNCHANGED events

LevelNext == LevelShoot \/ LevelUpdate

LevelSpec == LevelInit /\ [][LevelNext]_vars

\* the flyer of this level was shot
FlyerShot(m) == m.ufo.hasSpawnedThisLevel /\ m.ufo.exploding

\* the enemies of this level that were shot
Shot(m) == {i \in FormationSlots : m.enemies[i].exploding}

\* what the targets shot in this level have awarded
LevelScore(m) == PointsOf(Shot(m)) + (IF FlyerShot(m) THEN 100 ELSE 0)

\* the scores a game can have when level n begins
Bases(n) == {PointsOf(FormationSlots) * (n - 1) + 100 * k : k \in 0 .. n - 1}

----------------------------------------------------------------------------
(* ShieldSpec: the same games with worn barriers, and a lost one *)

\* game m after barrier 0 was destroyed and barrier 1 took seven bullets
Worn(m) ==
    [m EXCEPT !.shields[0].health = 0, !.shields[0].active = FALSE,
              !.shields[1].health = SHIELD_MAX_HEALTH - 7]

ShieldInit ==
    /\ model \in {Worn(LastEnemy), Worn(LastTargets), Lost(Worn(TwoEnemies))}
    /\ files = <<>>
    /\ running = TRUE
    /\ accumulator = 0
    /\ frame = FrameStart
    /\ view = "ncurses"
    /\ steps = 0
    /\ events = 0
    /\ lastCall = NoCall
    /\ savedSnap = <<>>

ShieldNext == LevelShoot \/ LevelUpdate \/ HitInput

ShieldSpec == ShieldInit /\ [][ShieldNext]_vars

\* barrier s of snapshot n is in better shape than in snapshot m
Restored(m, n, s) ==
    \/ n.shields[s].health > m.shields[s].health
    \/ n.shields[s].active /\ ~m.shields[s].active

\* C36: the step that raises the level leaves every barrier as it is, and a
\* barrier gains health or becomes active again only when a new game is
\* started: a barrier destroyed in one level stays destroyed in the next.
C36_BarriersOutliveLevels ==
    /\ [][model'.level = model.level + 1 =>
            (SimulationStep /\ model'.shields = model.shields)]_vars
    /\ [][(\E s \in AllShields : Restored(model, model', s)) =>
            /\ model.state = STATE_GAME_OVER /\ steps' = steps
            /\ Fresh(model')]_vars

\* C36 witness: in level 2 barrier 0 is still destroyed and barrier 1 still
\* has three bullets to take
C36_WornInLevelTwo ==
    /\ model.level = 2 /\ model.state = STATE_PLAYING
    /\ ~model.shields[0].active /\ model.shields[0].health = 0
    /\ model.shields[1].active /\ model.shields[1].health = SHIELD_MAX_HEALTH - 7
    /\ model.lives = 4

----------------------------------------------------------------------------
(* ProgressSpec: a level whose last enemy is shot, followed until the next
   level begins; the loop keeps calling model_update *)

\* steps enough for a flyer to cross the playfield, and some more
ProgressSteps == 660

\* every enemy shot, the flyer in flight above a player bullet that is about
\* to hit it
ClearedUfoTarget ==
    [WithBullets(WithLive(NewGame, {}), <<PlayerBullet(P(49), 39)>>)
     EXCEPT !.ufo = spawn_ufo(NewGame, 0).ufo, !.ufo.x = P(47),
            !.sounds.ufo_loopING = TRUE]

\* every enemy shot, the flyer in flight, and an enemy bullet about to take
\* the player's last life
ClearedLastLife ==
    [WithBullets(WithLive(NewGame, {}),
                 <<EnemyBullet(NewGame.player.x + P(2), 4, 25)>>)
     EXCEPT !.ufo = spawn_ufo(NewGame, 0).ufo, !.ufo.x = P(47),
            !.sounds.ufo_loopING = TRUE, !.lives = 1]

ProgressInit ==
    /\ model \in {LastEnemy, UfoLeaving, UfoExploding, ClearedUfoTarget,
                  ClearedLastLife}
    /\ files = <<>>
    /\ running = TRUE
    /\ accumulator = 0
    /\ frame = FrameStart
    /\ view = "ncurses"
    /\ steps = 0
    /\ events = 0
    /\ lastCall = NoCall
    /\ savedSnap = <<>>

\* rand() results: nothing happens, or the flyer spawns on either side
ProgressDraws ==
    {QuietDraw} \cup
    {RandDraw(0, side, 99, Picks(MAX_ENEMIES - 1, MAX_ENEMIES - 1)) : side \in 0 .. 1}

\* the loop is running and the run is still followed
Stepping == running /\ steps < ProgressSteps /\ model.level = 1

ProgressUpdate ==
    /\ Stepping
    /\ \E r \in ProgressDraws : Update(r)
    /\ UNCHANGED events

\* a step of ProgressUpdate, told by the step counter: every flow-state of
\* these runs advances a clock
NextStep == Stepping /\ steps' = steps + 1

\* the loop of main.c calls model_update again as long as it runs
ProgressSpec ==
    ProgressInit /\ [][ProgressUpdate]_vars /\ WF_steps(NextStep)

\* no active, non-exploding enemy is left in level 1
Cleared == model.level = 1 /\ ActiveEnemies(model) = 0

\* C37: in a game that stays Playing and whose steps keep occurring, once no
\* active non-exploding enemy remains the level is eventually raised: a flyer
\* in flight leaves on the side it is heading to, an exploding one goes when
\* its timer expires, and none spawns after it.
C37_LevelEventuallyRaised ==
    (model.state = STATE_PLAYING /\ Cleared)
        ~> (model.level = 2 \/ model.state # STATE_PLAYING)

\* C37 witness: the flyer spawned while the last enemy was exploding, crossed
\* the whole playfield, and the level was raised then
C37_RaisedAfterCrossing ==
    /\ model.level = 2 /\ model.state = STATE_PLAYING
    /\ steps > (P(GAME_WIDTH + UFO_WIDTH) * TARGET_FPS) \div (UFO_SPEED * PosUnit)
    /\ ~model.ufo.active

----------------------------------------------------------------------------
(* BulletSpec: bullets in flight, and a few more fired early in the run; the
   loop keeps calling model_update *)

\* shots are fired during the first steps only
ShotSteps == 2

\* steps enough for the slowest bullet to cross the playfield from the top
\* row of the formation, and one step more for a level transition
FlightSteps ==
    (P(GAME_HEIGHT) * TARGET_FPS * 10) \div (BULLET_SPEED * 6 * PosUnit) + 1

\* the last enemy about to be shot while an enemy bullet is on its way down
LastEnemyFiring ==
    WithBullets(WithLive(NewGame, {54}),
                <<PlayerBullet(P(66) + PosUnit \div 2, 15), EnemyBullet(P(30), 0, 3)>>)

BulletInit ==
    /\ model \in {Barrage, UfoTarget, LastEnemyFiring, PlayerTarget(1),
                  PlayerTarget(3)}
    /\ files = <<>>
    /\ running = TRUE
    /\ accumulator = 0
    /\ frame = FrameStart
    /\ view = "ncurses"
    /\ steps = 0
    /\ events = 0
    /\ lastCall = NoCall
    /\ savedSnap = <<>>

\* rand() results: nothing happens, or the enemy of slot 43 or 54 fires
BulletDraws ==
    {QuietDraw} \cup {RandDraw(1, 0, 0, Picks(e, e)) : e \in {43, 54}}

\* the loop is running and the run is still followed
Flying == running /\ steps < ShotSteps + FlightSteps

BulletUpdate ==
    /\ Flying
    /\ \E r \in BulletDraws :
          /\ r.fire = 0 => (steps < ShotSteps /\ events < MaxEvents)
          /\ Update(r)
          /\ events' = events + RandomEvents(model, r)

\* the player fires when the cooldown allows it
BulletShoot ==
    /\ model.state = STATE_PLAYING
    /\ model.player.shoot_timer <= 0
    /\ steps < ShotSteps /\ events < MaxEvents
    /\ Input(KEY_SPACE, NoIo)
    /\ events' = events + 1

BulletNext == BulletShoot \/ BulletUpdate

\* a step of BulletUpdate, told by the step counter: every flow-state of
\* these runs advances a clock
FlightStep == Flying /\ steps' = steps + 1

\* the loop of main.c calls model_update again as long as it runs
BulletSpec == BulletInit /\ [][BulletNext]_vars /\ WF_steps(FlightStep)

\* the slots these runs use: the eleven bullets of Barrage and the shots
\* fired since
SlotsInUse == 0 .. 10 + MaxEvents

\* C38: in a game that stays Playing and whose steps keep occurring, every
\* active bullet is eventually deactivated, so its slot is free again (the
\* slots past those in use hold no bullet at all).
C38_BulletsEventuallyFreed ==
    /\ [](\A i \in AllBullets \ SlotsInUse : ~model.bullets[i].active)
    /\ \A i \in SlotsInUse :
          (model.state = STATE_PLAYING /\ model.bullets[i].active)
              ~> (~model.bullets[i].active \/ model.state # STATE_PLAYING)

\* C38 witness: the bullet of slot 0 has hit the last enemy, and the player's
\* next shot uses slot 0 again while the enemy bullet of slot 1 is in flight
C38_SlotReused ==
    /\ model.state = STATE_PLAYING /\ steps > 0
    /\ model.bullets[0].active /\ model.bullets[0].type = ENTITY_BULLET_PLAYER
    /\ model.bullets[0].y = model.player.y - P(1)
    /\ model.bullets[1].active /\ model.bullets[1].type = ENTITY_BULLET_ENEMY
    /\ ~model.bullets[2].active

====
